---- MODULE Spec2Model ----
(***************************************************************************)
(* Model of the tastytrade options assistant: position sizer               *)
(* (position_sizer.py), scanner with its chain analysis and                *)
(* put-credit-spread finder (options_scanner.py), loss monitor             *)
(* (loss_monitor.py) and auto trade detector (auto_trade_detector.py with  *)
(* the journal calls it makes, trade_journal.py).                          *)
(*                                                                         *)
(* Number representation.  The program computes with Python floats; the    *)
(* model computes with exact integers and rationals:                       *)
(*   - strike prices and spread widths are whole dollars;                  *)
(*   - option quotes (bid, ask) and the sizer's credit are cents;          *)
(*   - a mid price (bid + ask) / 2 and the spread credit built from two    *)
(*     mids are kept in half-cents, so that the halving is exact;          *)
(*   - max_risk_per_trade is kept in percent (0.05 is 5), so that          *)
(*     account_size * max_risk_per_trade is a whole number of cents;       *)
(*   - a quotient that is only compared (loss_pct, risk_pct) is a rational *)
(*     [num, den] with den > 0, compared by cross-multiplication.          *)
(***************************************************************************)
EXTENDS Integers, Sequences, FiniteSets, TLC

VARIABLES
    sizer,      \* the PositionSizer object: its fields, or NoSizer before construction
    sizing,     \* the last call on the sizer: its arguments and what it returned
    spread,     \* the last _find_put_credit_spread call: the chain and the result
    positions,  \* what client.get_positions returned to the last check_positions
    check,      \* the outcome of the last check_positions call
    sev,        \* the last two _assess_severity calls (a loss and a worse loss)
    analysis,   \* the last _analyze_chain call: the chain data and what it returned
    scanner,    \* the OptionsScanner object: its configuration and self.opportunities
    scan,       \* the last scan_for_opportunities call: what it was given and returned
    recommend,  \* the last run_full_scan_and_recommend call: its arguments and lists
    broker,     \* the positions the broker reports for the account
    snapshots,  \* the rows of the position_snapshots table, and the clock that dates them
    journal,    \* the recommendations and trades tables of the trade journal
    report      \* the last detect_changes run: what it loaded and what it found

scanVars == <<analysis, scanner, scan, recommend>>
detectorVars == <<broker, snapshots, journal, report>>

vars == <<sizer, sizing, spread, positions, check, sev, scanVars, detectorVars>>

(***************************************************************************)
(* Helpers                                                                 *)
(***************************************************************************)
Abs(x) == IF x < 0 THEN -x ELSE x

\* The elements of a sequence
Range(seq) == {seq[i] : i \in 1..Len(seq)}

\* Python int(a / b) for b > 0: truncation toward zero.
IntDiv(a, b) == IF a >= 0 THEN a \div b ELSE -((-a) \div b)

RECURSIVE Gcd(_, _)
Gcd(a, b) == IF b = 0 THEN a ELSE Gcd(b, a % b)

\* The quotient n / d (d # 0) as a rational in lowest terms with a positive
\* denominator.
Rat(n, d) ==
    LET g == Gcd(Abs(n), Abs(d))
    IN IF d > 0 THEN [num |-> n \div g, den |-> d \div g]
       ELSE [num |-> (-n) \div g, den |-> (-d) \div g]

\* Python's None and a present value.
None == <<>>
Some(x) == <<x>>

(***************************************************************************)
(* Position sizer (position_sizer.py)                                      *)
(***************************************************************************)
MaxContractsArg == 2

AccountSizes == {100, 1000, 46000}      \* dollars
RiskPcts == {0, 1, 5}                   \* max_risk_per_trade, in percent
Widths == {0, 5, 10}                    \* dollars
Credits == {0, 100, 175, 185, 350, 500, 600, 1100}    \* cents per spread
ContractArgs == {None} \cup {Some(n) : n \in 0..MaxContractsArg}

NoSizer == [account_size |-> 0, max_risk_per_trade |-> 0, max_risk_dollars |-> 0,
            constructed |-> FALSE]
NoSizing == [op |-> "none"]

\* PositionSizer.__init__; max_risk_dollars is in cents (dollars x percent).
PositionSizer_init(account_size, max_risk_per_trade) ==
    [account_size |-> account_size,
     max_risk_per_trade |-> max_risk_per_trade,
     max_risk_dollars |-> account_size * max_risk_per_trade,
     constructed |-> TRUE]

\* (width - credit_per_spread) * 100, in cents.
max_loss_per_spread(width, credit) == (width * 100 - credit) * 100

\* credit_per_spread >= width / 3
MeetsMinCredit(width, credit) == 3 * credit >= 100 * width

\* Mutants of size_credit_spread.
size_credit_spread_OverrideFirst(self, width, credit) ==
    LET mlps == max_loss_per_spread(width, credit) IN
    IF mlps <= 0 THEN (IF MeetsMinCredit(width, credit) THEN 1 ELSE 0)
    ELSE LET contracts == IntDiv(self.max_risk_dollars, mlps) IN
         IF contracts = 0 /\ MeetsMinCredit(width, credit) THEN 1 ELSE contracts

size_credit_spread_NoOverride(self, width, credit) ==
    LET mlps == max_loss_per_spread(width, credit) IN
    IF mlps <= 0 THEN 0 ELSE IntDiv(self.max_risk_dollars, mlps)

size_credit_spread_WidthOnly(self, width, credit) ==
    LET mlps == max_loss_per_spread(width, credit) IN
    IF mlps <= 0 THEN 0
    ELSE LET contracts == IntDiv(self.max_risk_dollars, width * 100 * 100) IN
         IF contracts = 0 /\ MeetsMinCredit(width, credit) THEN 1 ELSE contracts

size_credit_spread(self, width, credit) ==
    LET mlps == max_loss_per_spread(width, credit) IN
    IF mlps <= 0 THEN 0
    ELSE LET contracts == IntDiv(self.max_risk_dollars, mlps) IN
         IF contracts = 0 /\ MeetsMinCredit(width, credit) THEN 1 ELSE contracts

\* risk_pct <= max_risk_per_trade * 100
RiskWithinLimit(self, risk_pct) == risk_pct.num <= self.max_risk_per_trade * risk_pct.den

\* Mutant of calculate_position_details: meets_criteria forgets contracts > 0.
calculate_position_details_NoCount(self, width, credit, contractsArg) ==
    LET contracts == IF contractsArg = None THEN size_credit_spread(self, width, credit)
                     ELSE contractsArg[1]
        mlps == max_loss_per_spread(width, credit)
        total_max_loss == mlps * contracts
        total_credit == credit * 100 * contracts
        total_risk_pct == Rat(total_max_loss, self.account_size)
    IN [contracts |-> contracts,
        total_credit |-> total_credit,
        total_max_loss |-> total_max_loss,
        risk_pct |-> total_risk_pct,
        meets_criteria |-> RiskWithinLimit(self, total_risk_pct)]

calculate_position_details(self, width, credit, contractsArg) ==
    LET contracts == IF contractsArg = None THEN size_credit_spread(self, width, credit)
                     ELSE contractsArg[1]
        mlps == max_loss_per_spread(width, credit)
        total_max_loss == mlps * contracts
        total_credit == credit * 100 * contracts
        total_risk_pct == Rat(total_max_loss, self.account_size)
    IN [contracts |-> contracts,
        total_credit |-> total_credit,
        total_max_loss |-> total_max_loss,
        risk_pct |-> total_risk_pct,
        meets_criteria |-> contracts > 0 /\ RiskWithinLimit(self, total_risk_pct)]

Construct ==
    /\ ~sizer.constructed
    /\ \E a \in AccountSizes, r \in RiskPcts : sizer' = PositionSizer_init(a, r)
    /\ UNCHANGED <<sizing, spread, positions, check, sev, scanVars, detectorVars>>

SizeCreditSpread ==
    /\ sizer.constructed
    /\ \E w \in Widths, c \in Credits :
         sizing' = [op |-> "size", width |-> w, credit |-> c,
                    contracts |-> size_credit_spread(sizer, w, c)]
    /\ UNCHANGED <<sizer, spread, positions, check, sev, scanVars, detectorVars>>

CalculatePositionDetails ==
    /\ sizer.constructed
    /\ \E w \in Widths, c \in Credits, k \in ContractArgs :
         sizing' = [op |-> "details", width |-> w, credit |-> c, arg |-> k,
                    details |-> calculate_position_details(sizer, w, c, k)]
    /\ UNCHANGED <<sizer, spread, positions, check, sev, scanVars, detectorVars>>

(***************************************************************************)
(* Put credit spread finder (options_scanner.py)                           *)
(***************************************************************************)
MaxStrikes == 3

\* The strike price of the i-th entry of a chain (dollars, ascending):
\* 90, 95, 100, 110, 120, ...
StrikePrice(i) == IF i <= 2 THEN 85 + 5 * i ELSE 80 + 10 * (i - 1)

Deltas == {-40, -35, -25, -20}  \* put delta, in hundredths
\* <<bid, ask>> of a put, in cents
Quotes == {<<0, 50>>, <<50, 0>>, <<50, 150>>, <<150, 250>>, <<600, 700>>,
           <<1200, 1300>>}

\* The 'put' entry of a strike: absent, or its delta and quotes.
PutOptions == {None} \cup {Some([delta |-> d, bid |-> q[1], ask |-> q[2]]) :
                               d \in Deltas, q \in Quotes}

\* expiration['strikes'] of at most MaxStrikes entries.
Chains == UNION {[1..n -> PutOptions] : n \in 0..MaxStrikes}

StrikeData(puts, i) == [strike_price |-> StrikePrice(i), put |-> puts[i]]

\* (bid + ask) / 2, in half-cents.
Mid(bid, ask) == bid + ask

\* -0.35 <= delta <= -0.25 and bid > 0 and ask > 0
Qualifies(put) == -35 <= put.delta /\ put.delta <= -25 /\ put.bid > 0 /\ put.ask > 0

RECURSIVE CollectPutStrikes(_, _)
\* The loop of lines 247-267: put_strikes, in chain order, from entry i on.
CollectPutStrikes(puts, i) ==
    IF i > Len(puts) THEN <<>>
    ELSE LET sd == StrikeData(puts, i)
             rest == CollectPutStrikes(puts, i + 1)
         IN IF sd.put = None THEN rest
            ELSE LET put == sd.put[1] IN
                 IF Qualifies(put)
                 THEN <<[strike |-> sd.strike_price, delta |-> put.delta,
                         bid |-> put.bid, ask |-> put.ask,
                         mid |-> Mid(put.bid, put.ask)]>> \o rest
                 ELSE rest

\* Mutant of HighestStrike: the sort is ascending.
HighestStrike_Lowest(put_strikes) ==
    LET i == CHOOSE k \in 1..Len(put_strikes) :
                 \A j \in 1..Len(put_strikes) :
                     /\ put_strikes[j].strike >= put_strikes[k].strike
                     /\ (j < k => put_strikes[j].strike > put_strikes[k].strike)
    IN put_strikes[i]

\* put_strikes.sort(key=strike, reverse=True)[0]: the first entry of the
\* highest strike (the sort is stable).
HighestStrike(put_strikes) ==
    LET i == CHOOSE k \in 1..Len(put_strikes) :
                 \A j \in 1..Len(put_strikes) :
                     /\ put_strikes[j].strike <= put_strikes[k].strike
                     /\ (j < k => put_strikes[j].strike < put_strikes[k].strike)
    IN put_strikes[i]

\* Mutant of SpreadWidth: a short strike of 100 still gets the narrow width.
SpreadWidth_Through100(short_strike) == IF short_strike <= 100 THEN 5 ELSE 10

\* width = 5 if short_strike < 100 else 10
SpreadWidth(short_strike) == IF short_strike < 100 THEN 5 ELSE 10

\* The loop of lines 285-296: the first entry at the long strike decides.
FindLongStrike(puts, long_strike) ==
    LET hits == {i \in 1..Len(puts) : StrikeData(puts, i).strike_price = long_strike}
    IN IF hits = {} THEN None
       ELSE LET i == CHOOSE k \in hits : \A j \in hits : k <= j
                sd == StrikeData(puts, i)
            IN IF sd.put = None THEN None
               ELSE Some([strike |-> long_strike, bid |-> sd.put[1].bid,
                          ask |-> sd.put[1].ask,
                          mid |-> Mid(sd.put[1].bid, sd.put[1].ask)])

\* Mutant of BelowMinCredit: the threshold is 1/3 whatever the width.
BelowMinCredit_NoWidth(credit, width) == 3 * credit < 200

\* credit < width / 3, credit in half-cents
BelowMinCredit(credit, width) == 3 * credit < 200 * width

\* max_loss = (width - credit) * 100, in half-cents
SpreadMaxLoss(width, credit) == (width * 200 - credit) * 100

\* symbol, iv_rank, expiration date and dte are copied through to the result
\* unchanged and are left out.
find_put_credit_spread(puts) ==
    IF Len(puts) = 0 THEN None
    ELSE LET put_strikes == CollectPutStrikes(puts, 1) IN
         IF Len(put_strikes) = 0 THEN None
         ELSE LET short_strike_data == HighestStrike(put_strikes)
                  short_strike == short_strike_data.strike
                  width == SpreadWidth(short_strike)
                  long_strike == short_strike - width
                  long_strike_data == FindLongStrike(puts, long_strike)
              IN IF long_strike_data = None THEN None
                 ELSE LET credit == short_strike_data.mid - long_strike_data[1].mid
                          max_profit == credit * 100
                          max_loss == SpreadMaxLoss(width, credit)
                          pop == Abs(short_strike_data.delta)
                      IN IF BelowMinCredit(credit, width) THEN None
                         ELSE Some([strategy |-> "Put Credit Spread",
                                    short_strike |-> short_strike,
                                    long_strike |-> long_strike,
                                    width |-> width,
                                    credit |-> credit,
                                    max_profit |-> max_profit,
                                    max_loss |-> max_loss,
                                    pop |-> pop,
                                    return_on_risk |-> Rat(credit, 2 * width)])

\* A call of _find_put_credit_spread on the chain it was handed.
FindPutCreditSpread ==
    /\ spread.op = "call"
    /\ spread' = [op |-> "find", puts |-> spread.puts,
                  result |-> find_put_credit_spread(spread.puts)]
    /\ UNCHANGED <<sizer, sizing, positions, check, sev, scanVars, detectorVars>>

(***************************************************************************)
(* Chain analysis (options_scanner.py, _analyze_chain)                     *)
(*                                                                         *)
(* An expiration is its days to expiration, (expiration-date - now).days,  *)
(* and its strikes; dte is None when 'expiration-date' is missing or does  *)
(* not parse.                                                              *)
(***************************************************************************)
MaxExpirations == 3

\* OptionsScanner.__init__: the fields of a new scanner.  earnings_calendar
\* is whether the EarningsCalendar could be built.
OptionsScanner_init(min_iv_rank, target_dte, max_dte, avoid_earnings, earnings_window_days, earnings_calendar) ==
    [constructed |-> TRUE,
     min_iv_rank |-> min_iv_rank,
     target_dte |-> target_dte,
     max_dte |-> max_dte,
     avoid_earnings |-> avoid_earnings,
     earnings_window_days |-> earnings_window_days,
     earnings_calendar |-> earnings_calendar,
     opportunities |-> <<>>]

Dtes == {None} \cup {Some(d) : d \in {29, 30, 40, 45, 50, 60, 61}}

\* Strikes that yield a put credit spread (short 95, long 90, credit 1.75),
\* and strikes that yield none.
SpreadStrikes ==
    <<Some([delta |-> -40, bid |-> 50, ask |-> 150]),
      Some([delta |-> -25, bid |-> 200, ask |-> 350])>>
NoSpreadStrikes == <<None, Some([delta |-> -25, bid |-> 200, ask |-> 350])>>

Expirations ==
    UNION {[1..n -> [dte : Dtes, strikes : {SpreadStrikes, NoSpreadStrikes}]] :
               n \in 0..MaxExpirations}

\* 30 <= dte <= self.max_dte
Eligible(self, dte) == 30 <= dte /\ dte <= self.max_dte

\* Mutant of Closer: on a tie the later expiration replaces the earlier.
Closer_OrEqual(dte_diff, min_dte_diff) ==
    min_dte_diff = None \/ dte_diff <= min_dte_diff[1]

\* dte_diff < min_dte_diff, min_dte_diff being None while it is infinite
Closer(dte_diff, min_dte_diff) ==
    min_dte_diff = None \/ dte_diff < min_dte_diff[1]

RECURSIVE TargetExpiration(_, _, _, _, _)
\* The loop of lines 188-207 from expiration i on: the index of target_exp
\* when the loop ends, None if it is still unset.
TargetExpiration(self, expirations, i, target_exp, min_dte_diff) ==
    IF i > Len(expirations) THEN target_exp
    ELSE LET exp == expirations[i] IN
         IF exp.dte = None
         THEN TargetExpiration(self, expirations, i + 1, target_exp, min_dte_diff)
         ELSE LET dte == exp.dte[1]
                  dte_diff == Abs(dte - self.target_dte)
              IN IF Eligible(self, dte) /\ Closer(dte_diff, min_dte_diff)
                 THEN TargetExpiration(self, expirations, i + 1, Some(i), Some(dte_diff))
                 ELSE TargetExpiration(self, expirations, i + 1, target_exp, min_dte_diff)

\* _analyze_chain: the index of the expiration chosen and the opportunities
\* found on it.  _find_call_credit_spread returns None whatever the IV rank,
\* so only the put spread can be appended.
analyze_chain(self, symbol, expirations, candidate_info) ==
    IF Len(expirations) = 0 THEN [target_exp |-> None, opportunities |-> <<>>]
    ELSE LET target_exp == TargetExpiration(self, expirations, 1, None, None) IN
         IF target_exp = None THEN [target_exp |-> None, opportunities |-> <<>>]
         ELSE LET exp == expirations[target_exp[1]]
                  put_spread == find_put_credit_spread(exp.strikes)
              IN [target_exp |-> target_exp,
                  opportunities |->
                      IF put_spread = None THEN <<>>
                      ELSE <<[symbol |-> symbol,
                              iv_rank |-> candidate_info.iv_rank,
                              dte |-> exp.dte[1],
                              spread |-> put_spread[1]]>>]

\* A call of _analyze_chain on the chain data it was handed.
AnalyzeChain ==
    /\ analysis.op = "call"
    /\ LET result == analyze_chain(scanner, analysis.symbol, analysis.expirations,
                                   analysis.candidate_info)
       IN analysis' = [op |-> "analyzed",
                       symbol |-> analysis.symbol,
                       expirations |-> analysis.expirations,
                       candidate_info |-> analysis.candidate_info,
                       target_exp |-> result.target_exp,
                       opportunities |-> result.opportunities]
    /\ UNCHANGED <<sizer, sizing, spread, positions, check, sev, scanner, scan,
                   recommend, detectorVars>>

(***************************************************************************)
(* Scan (options_scanner.py, scan_for_opportunities)                       *)
(*                                                                         *)
(* A symbol is its place in the list handed to get_market_metrics.  The    *)
(* market the scan meets is given per symbol: its IV rank, the days until  *)
(* its earnings date in the earnings_calendar table (None: no row),        *)
(* whether looking that row up raises (the database cannot be read, or the *)
(* stored date is not a bare YYYY-MM-DD), and what get_option_chain        *)
(* answers (None: the request raises).                                     *)
(***************************************************************************)
MaxGroups == 2

\* for candidate in high_iv_candidates[:10]
TopCandidates == 10

IvRanks == {49, 50, 80}

\* Strikes that yield a put credit spread whose short leg has delta -0.35.
SpreadStrikes35 ==
    <<Some([delta |-> -40, bid |-> 50, ask |-> 150]),
      Some([delta |-> -35, bid |-> 200, ask |-> 350])>>

\* What get_option_chain may answer for a symbol.
ChainAnswers ==
    {None,
     Some(<<>>),
     Some(<<[dte |-> Some(45), strikes |-> SpreadStrikes]>>),
     Some(<<[dte |-> Some(45), strikes |-> SpreadStrikes35]>>)}

\* A symbol as the market presents it to one scan.
Listings ==
    {[iv_rank |-> 49, earnings |-> None, earnings_raises |-> FALSE, chain |-> None]}
    \cup {[iv_rank |-> r, earnings |-> None, earnings_raises |-> FALSE, chain |-> c] :
              r \in IvRanks \ {49}, c \in ChainAnswers}
    \cup {[iv_rank |-> 80, earnings |-> Some(d), earnings_raises |-> FALSE,
           chain |-> Some(<<[dte |-> Some(45), strikes |-> SpreadStrikes]>>)] :
              d \in {-1, 0, 7, 8}}
    \cup {[iv_rank |-> 50, earnings |-> Some(7), earnings_raises |-> FALSE,
           chain |-> Some(<<[dte |-> Some(45), strikes |-> SpreadStrikes35]>>)]}

MaxSymbols == 2

\* The symbols of a short watchlist: one below the IV rank wanted, one
\* whose chain yields a spread, one whose earnings lookup raises, one with
\* earnings in 7 days, one whose chain request raises.
WatchlistListings ==
    {[iv_rank |-> 49, earnings |-> None, earnings_raises |-> FALSE, chain |-> None],
     [iv_rank |-> 80, earnings |-> None, earnings_raises |-> FALSE,
      chain |-> Some(<<[dte |-> Some(45), strikes |-> SpreadStrikes]>>)],
     [iv_rank |-> 80, earnings |-> None, earnings_raises |-> TRUE,
      chain |-> Some(<<[dte |-> Some(45), strikes |-> SpreadStrikes]>>)],
     [iv_rank |-> 50, earnings |-> Some(7), earnings_raises |-> FALSE,
      chain |-> Some(<<[dte |-> Some(45), strikes |-> SpreadStrikes35]>>)],
     [iv_rank |-> 50, earnings |-> None, earnings_raises |-> FALSE, chain |-> None]}

\* The watchlists of at most n symbols.
Watchlists(n) == UNION {[1..k -> WatchlistListings] : k \in 0..n}

RECURSIVE Markets(_)
\* The lists of symbols made of at most n groups of 1 or TopCandidates
\* symbols that share a listing.
Markets(n) ==
    IF n = 0 THEN {<<>>}
    ELSE Markets(n - 1)
         \cup {[i \in 1..k |-> l] \o rest :
                   k \in {1, TopCandidates}, l \in Listings, rest \in Markets(n - 1)}

\* client.get_market_metrics(symbols): one metric per symbol, in order.
Metrics(market) ==
    [i \in 1..Len(market) |-> [symbol |-> i, iv_rank |-> market[i].iv_rank]]

\* EarningsCalendar.check_symbol_earnings: the row of the symbol whose date
\* lies in [today, today + days_ahead], if there is one.
check_symbol_earnings(market, symbol, days_ahead) ==
    IF /\ market[symbol].earnings # None
       /\ market[symbol].earnings[1] >= 0
       /\ market[symbol].earnings[1] <= days_ahead
    THEN Some([symbol |-> symbol, days_until |-> market[symbol].earnings[1]])
    ELSE None

\* Whether check_symbol_earnings raises instead of returning: sqlite3 fails
\* to connect or to execute, or strptime rejects the stored date.
EarningsLookupRaises(market, symbol) == market[symbol].earnings_raises

RECURSIVE SortedPlaces(_, _, _)
\* Insertion of the places i, i+1, ... of keys into order, a place going
\* behind every place already there whose key is not smaller.
SortedPlaces(keys, i, order) ==
    IF i > Len(keys) THEN order
    ELSE LET ahead == Cardinality({j \in 1..Len(order) : keys[order[j]] >= keys[i]})
         IN SortedPlaces(keys, i + 1,
                SubSeq(order, 1, ahead) \o <<i>> \o SubSeq(order, ahead + 1, Len(order)))

\* list.sort(key=..., reverse=True): descending by key, items of equal key
\* in their former order.
SortDescending(keys, items) ==
    LET order == SortedPlaces(keys, 1, <<>>)
    IN [k \in 1..Len(items) |-> items[order[k]]]

\* seq[:n]
Take(seq, n) == SubSeq(seq, 1, IF Len(seq) < n THEN Len(seq) ELSE n)

\* iv_rank >= self.min_iv_rank
HighIv(self, iv_rank) == iv_rank >= self.min_iv_rank

\* Mutant of EarningsFilterOn: the filter runs whenever a calendar exists.
EarningsFilterOn_CalendarOnly(self) == self.earnings_calendar

\* if self.avoid_earnings and self.earnings_calendar
EarningsFilterOn(self) == self.avoid_earnings /\ self.earnings_calendar

RECURSIVE AnalyzeCandidates_StopAtFailure(_, _, _, _)
\* Mutant of AnalyzeCandidates: the first failing symbol ends the loop.
AnalyzeCandidates_StopAtFailure(self, market, top, i) ==
    IF i > Len(top) THEN <<>>
    ELSE LET candidate == top[i]
             chain == market[candidate.symbol].chain
         IN IF chain = None THEN <<>>
            ELSE analyze_chain(self, candidate.symbol, chain[1],
                               candidate).opportunities
                 \o AnalyzeCandidates_StopAtFailure(self, market, top, i + 1)

RECURSIVE AnalyzeCandidates(_, _, _, _)
\* The loop of lines 151-168 from candidate i on: the opportunities of the
\* candidates whose chain could be fetched, in the order they are analysed.
AnalyzeCandidates(self, market, top, i) ==
    IF i > Len(top) THEN <<>>
    ELSE LET candidate == top[i]
             chain == market[candidate.symbol].chain
             rest == AnalyzeCandidates(self, market, top, i + 1)
         IN IF chain = None THEN rest
            ELSE analyze_chain(self, candidate.symbol, chain[1],
                               candidate).opportunities \o rest

\* Mutant of SortByIvRank: the candidates stay in the order of the metrics.
SortByIvRank_Unsorted(candidates) == candidates

\* high_iv_candidates.sort(key=lambda x: x['iv_rank'], reverse=True)
SortByIvRank(candidates) ==
    SortDescending([i \in 1..Len(candidates) |-> candidates[i].iv_rank], candidates)

\* Mutant of SortByPop: the opportunities stay in the order they were found.
SortByPop_Unsorted(opportunities) == opportunities

\* opportunities.sort(key=lambda x: x['pop'], reverse=True)
SortByPop(opportunities) ==
    SortDescending([i \in 1..Len(opportunities) |-> opportunities[i].spread.pop],
                   opportunities)

\* Whether the loop of lines 106-119, which has no try around it, lets an
\* exception of check_symbol_earnings out of scan_for_opportunities.
EarningsLoopRaises(self, market, high_iv_candidates) ==
    /\ EarningsFilterOn(self)
    /\ \E i \in 1..Len(high_iv_candidates) :
           EarningsLookupRaises(market, high_iv_candidates[i].symbol)

\* scan_for_opportunities: what it returns, what it leaves in
\* self.opportunities, and its locals.  metrics_raises is whether
\* get_market_metrics raises.  On the path "earnings raised" the call
\* ends with an exception and returns nothing.
scan_for_opportunities(self, market, metrics_raises) ==
    LET HasEarnings(c) ==
            check_symbol_earnings(market, c.symbol, self.earnings_window_days) # None
        \* lines 170-174
        Return(sorted, top, earnings_filtered, opportunities) ==
            [path |-> "scanned", result |-> opportunities,
             opportunities |-> opportunities,
             high_iv_candidates |-> sorted,
             earnings_filtered |-> earnings_filtered,
             fetched |-> [i \in 1..Len(top) |-> top[i].symbol]]
        \* lines 149-168
        Analyze(sorted, top, earnings_filtered) ==
            Return(sorted, top, earnings_filtered,
                   SortByPop(AnalyzeCandidates(self, market, top, 1)))
        \* lines 131-136
        Rank(high_iv_candidates, earnings_filtered) ==
            IF Len(high_iv_candidates) = 0
            THEN [path |-> "no candidates", result |-> <<>>,
                  opportunities |-> self.opportunities,
                  high_iv_candidates |-> <<>>,
                  earnings_filtered |-> earnings_filtered, fetched |-> <<>>]
            ELSE Analyze(SortByIvRank(high_iv_candidates),
                         Take(SortByIvRank(high_iv_candidates), TopCandidates),
                         earnings_filtered)
        \* lines 99-128
        Filter(high_iv_candidates) ==
            IF EarningsLoopRaises(self, market, high_iv_candidates)
            THEN [path |-> "earnings raised", result |-> <<>>,
                  opportunities |-> self.opportunities,
                  high_iv_candidates |-> high_iv_candidates,
                  earnings_filtered |-> <<>>, fetched |-> <<>>]
            ELSE IF EarningsFilterOn(self)
            THEN Rank(SelectSeq(high_iv_candidates, LAMBDA c : ~HasEarnings(c)),
                      SelectSeq(high_iv_candidates, HasEarnings))
            ELSE Rank(high_iv_candidates, <<>>)
    IN IF metrics_raises
       THEN [path |-> "metrics failed", result |-> <<>>,
             opportunities |-> self.opportunities,
             high_iv_candidates |-> <<>>, earnings_filtered |-> <<>>,
             fetched |-> <<>>]
       ELSE \* lines 79-95
            Filter(SelectSeq(Metrics(market), LAMBDA m : HighIv(self, m.iv_rank)))

\* A call of scan_for_opportunities.
ScanForOpportunities ==
    /\ scan.op = "call"
    /\ scan' = [op |-> "scan", market |-> scan.market,
                metrics_raises |-> scan.metrics_raises]
               @@ scan_for_opportunities(scanner, scan.market, scan.metrics_raises)
    /\ scanner' = [scanner EXCEPT !.opportunities = scan'.opportunities]
    /\ UNCHANGED <<sizer, sizing, spread, positions, check, sev, analysis,
                   recommend, detectorVars>>

(***************************************************************************)
(* Recommendations (generate_recommendations.py)                           *)
(*                                                                         *)
(* run_full_scan_and_recommend builds a scanner and a sizer, scans, and    *)
(* sizes the first 5 opportunities.  The text of a recommendation and the  *)
(* file it is written to are left out.                                     *)
(***************************************************************************)
\* for i, opp in enumerate(opportunities[:5], 1)
TopRecommended == 5

MinIvRanks == {30, 50}

\* Strikes 90, 95, 100, 110 that yield a put credit spread of width 10
\* (short 110, long 100, credit 4.50).
WideSpreadStrikes ==
    <<None, None,
      Some([delta |-> -40, bid |-> 150, ask |-> 250]),
      Some([delta |-> -30, bid |-> 600, ask |-> 700])>>

\* The symbols of the watchlist scanned: one whose chain request raises,
\* one with a spread of width 5, one with a spread of width 10, one with
\* earnings in 7 days.
RecommendListings ==
    {[iv_rank |-> 49, earnings |-> None, earnings_raises |-> FALSE, chain |-> None],
     [iv_rank |-> 80, earnings |-> None, earnings_raises |-> FALSE,
      chain |-> Some(<<[dte |-> Some(45), strikes |-> SpreadStrikes]>>)],
     [iv_rank |-> 50, earnings |-> None, earnings_raises |-> FALSE,
      chain |-> Some(<<[dte |-> Some(45), strikes |-> WideSpreadStrikes]>>)],
     [iv_rank |-> 80, earnings |-> Some(7), earnings_raises |-> FALSE,
      chain |-> Some(<<[dte |-> Some(45), strikes |-> SpreadStrikes]>>)]}

\* Watchlists of up to two groups of 1 or 6 symbols that share a listing.
RecommendMarkets ==
    LET groups == {<<>>} \cup {[i \in 1..k |-> l] :
                                  k \in {1, TopRecommended + 1},
                                  l \in RecommendListings}
    IN {g \o h : g \in groups, h \in groups}

\* opportunity.get('credit', 0) in the sizer's cents; the credit of a spread
\* found by the scanner is in half-cents, and a whole number of cents for
\* the chains scanned here.
CreditInCents(credit) == credit \div 2

\* Mutant of Recommendable: every sized spread is recommended.
Recommendable_AnySized(sized) == sized.contracts > 0

\* if sizing['meets_criteria']
Recommendable(sized) == sized.meets_criteria

RECURSIVE SizeOpportunities(_, _, _)
\* The loop of lines 52-64 from opportunity i on: the recommendations
\* appended.
SizeOpportunities(self, top, i) ==
    IF i > Len(top) THEN <<>>
    ELSE LET Keep(sized) ==
                 IF Recommendable(sized)
                 THEN <<[opportunity |-> top[i], sizing |-> sized]>>
                 ELSE <<>>
         IN Keep(calculate_position_details(self, top[i].spread.width,
                     CreditInCents(top[i].spread.credit), None))
            \o SizeOpportunities(self, top, i + 1)

\* run_full_scan_and_recommend: the scanner and the sizer it builds, the
\* path and the result of its scan, and the recommendations it returns
\* (none when the scan ends with an exception).  earnings_calendar is
\* whether the scanner could build its EarningsCalendar.
run_full_scan_and_recommend(account_size, max_risk, min_iv_rank, earnings_calendar, market, metrics_raises) ==
    LET Recommend(new_scanner, new_sizer, scanned) ==
            [scanner |-> [new_scanner EXCEPT !.opportunities = scanned.opportunities],
             sizer |-> new_sizer,
             path |-> scanned.path,
             opportunities |-> scanned.result,
             recommendations |->
                 IF Len(scanned.result) = 0 THEN <<>>
                 ELSE SizeOpportunities(new_sizer,
                          Take(scanned.result, TopRecommended), 1)]
        Scan(new_scanner, new_sizer) ==
            Recommend(new_scanner, new_sizer,
                      scan_for_opportunities(new_scanner, market, metrics_raises))
    IN Scan(OptionsScanner_init(min_iv_rank, 45, 60, TRUE, 7, earnings_calendar),
            PositionSizer_init(account_size, max_risk))

\* A call of run_full_scan_and_recommend.
RunFullScanAndRecommend ==
    /\ recommend.op = "call"
    /\ LET Commit(run) ==
               /\ scanner' = run.scanner
               /\ sizer' = run.sizer
               /\ recommend' = [recommend EXCEPT !.op = "done"]
                                @@ [path |-> run.path,
                                    opportunities |-> run.opportunities,
                                    recommendations |-> run.recommendations]
       IN Commit(run_full_scan_and_recommend(recommend.account_size,
                     recommend.max_risk, recommend.min_iv_rank,
                     recommend.earnings_calendar, recommend.market,
                     recommend.metrics_raises))
    /\ UNCHANGED <<sizing, spread, positions, check, sev, analysis, scan,
                   detectorVars>>

(***************************************************************************)
(* Loss monitor (loss_monitor.py)                                          *)
(***************************************************************************)
MaxPositions == 2

max_loss_multiple == 2      \* self.rules['max_loss_multiple']

Severities == {"OK", "WATCH", "WARNING", "CRITICAL"}

\* loss_pct < k, for a rational loss_pct and an integer k
PctBelow(loss_pct, k) == loss_pct.num < k * loss_pct.den

\* Mutant of _assess_severity: the WARNING tier is tested before CRITICAL.
assess_severity_WarningFirst(pnl, max_loss, loss_pct) ==
    IF PctBelow(loss_pct, -50) \/ 2 * Abs(pnl) > Abs(max_loss) THEN "WARNING"
    ELSE IF Abs(pnl) > Abs(max_loss) \/ PctBelow(loss_pct, -100) THEN "CRITICAL"
    ELSE IF PctBelow(loss_pct, -25) THEN "WATCH"
    ELSE "OK"

\* LossMonitor._assess_severity; abs(pnl) > abs(max_loss) * 0.5 is
\* 2 * abs(pnl) > abs(max_loss).
assess_severity(pnl, max_loss, loss_pct) ==
    IF Abs(pnl) > Abs(max_loss) \/ PctBelow(loss_pct, -100) THEN "CRITICAL"
    ELSE IF PctBelow(loss_pct, -50) \/ 2 * Abs(pnl) > Abs(max_loss) THEN "WARNING"
    ELSE IF PctBelow(loss_pct, -25) THEN "WATCH"
    ELSE "OK"

\* LossMonitor._generate_recommendation (the display texts reason and urgency
\* are functions of the severity and are left out).
generate_recommendation(symbol, quantity, pnl, loss_pct, severity) ==
    [symbol |-> symbol, quantity |-> quantity, pnl |-> pnl, loss_pct |-> loss_pct,
     action |-> IF severity = "CRITICAL" THEN "EXIT IMMEDIATELY"
                ELSE IF severity = "WARNING" THEN "CONSIDER EXITING"
                ELSE "MONITOR CLOSELY",
     severity |-> severity]

\* Broker positions.  Prices are cents per share and always even, so that
\* cost_basis * 0.5 is a whole number.  A missing or null price field reads
\* as 0 (safe_float).
Quantities == {-1, 0, 2}
AvgPrices == {-100, 0, 200}
ClosePrices == {0, 100, 200, 260, 450}
Multipliers == {0, 100}

OptionPositions ==
    {[instrument_type |-> "Equity Option", quantity |-> q, average_open_price |-> a,
      close_price |-> c, multiplier |-> m] :
        q \in Quantities, a \in AvgPrices, c \in ClosePrices, m \in {100}}
    \cup
    {[instrument_type |-> "Equity Option", quantity |-> q, average_open_price |-> 200,
      close_price |-> 200, multiplier |-> 0] : q \in Quantities}

EquityPositions ==
    {[instrument_type |-> "Equity", quantity |-> 2, average_open_price |-> 200,
      close_price |-> 100, multiplier |-> 0]}

PositionLists == UNION {[1..n -> OptionPositions \cup EquityPositions] : n \in 0..MaxPositions}

\* 'option' in inst_type.lower()
IsOption(pos) == pos.instrument_type \in {"Equity Option", "Future Option"}

Zero == [num |-> 0, den |-> 1]

\* Mutant of PnL: the long side guards only against a zero cost basis.
PnL_GuardZeroOnly(pos) ==
    LET quantity == pos.quantity
        avg_price == pos.average_open_price
        current_price == pos.close_price
        multiplier == pos.multiplier
    IN IF quantity < 0
       THEN LET unrealized_pnl == (avg_price - current_price) * Abs(quantity) * multiplier
                divisor == avg_price * Abs(quantity) * multiplier
            IN IF divisor = 0 THEN [fault |-> TRUE]
               ELSE [fault |-> FALSE, unrealized_pnl |-> unrealized_pnl,
                     max_loss |-> avg_price * Abs(quantity) * multiplier * max_loss_multiple,
                     loss_pct |-> Rat(unrealized_pnl * 100, divisor)]
       ELSE LET cost_basis == avg_price * quantity * multiplier
                current_value == current_price * quantity * multiplier
                unrealized_pnl == current_value - cost_basis
            IN [fault |-> FALSE, unrealized_pnl |-> unrealized_pnl,
                max_loss |-> cost_basis \div 2,
                loss_pct |-> IF cost_basis # 0 THEN Rat(unrealized_pnl * 100, cost_basis)
                             ELSE Zero]

\* Lines 66-88: the P&L figures of one option position.  The division of
\* line 81 raises ZeroDivisionError when entry_credit * |quantity| * multiplier
\* is 0, whatever the numerator (fault).
PnL(pos) ==
    LET quantity == pos.quantity
        avg_price == pos.average_open_price
        current_price == pos.close_price
        multiplier == pos.multiplier
    IN IF quantity < 0
       THEN LET unrealized_pnl == (avg_price - current_price) * Abs(quantity) * multiplier
                divisor == avg_price * Abs(quantity) * multiplier
            IN IF divisor = 0 THEN [fault |-> TRUE]
               ELSE [fault |-> FALSE, unrealized_pnl |-> unrealized_pnl,
                     max_loss |-> avg_price * Abs(quantity) * multiplier * max_loss_multiple,
                     loss_pct |-> Rat(unrealized_pnl * 100, divisor)]
       ELSE LET cost_basis == avg_price * quantity * multiplier
                current_value == current_price * quantity * multiplier
                unrealized_pnl == current_value - cost_basis
            IN [fault |-> FALSE, unrealized_pnl |-> unrealized_pnl,
                max_loss |-> cost_basis \div 2,
                loss_pct |-> IF cost_basis > 0 THEN Rat(unrealized_pnl * 100, cost_basis)
                             ELSE Zero]

\* The locals of check_positions before the loop.
NoLocals == [warnings |-> <<>>, recommendations |-> <<>>, healthy_positions |-> <<>>,
             evaluated |-> <<>>, raised |-> FALSE]

RECURSIVE CheckLoop(_, _, _)
\* The loop of lines 57-115 from position i on; a position's symbol is its
\* index in the list.  evaluated records the figures computed for each option
\* position (the locals unrealized_pnl, max_loss, loss_pct).  An exception
\* leaves the loop and the function.
CheckLoop(pos_list, i, loc) ==
    IF i > Len(pos_list) THEN loc
    ELSE LET pos == pos_list[i] IN
         IF ~IsOption(pos) THEN CheckLoop(pos_list, i + 1, loc)
         ELSE LET f == PnL(pos) IN
              IF f.fault THEN [loc EXCEPT !.raised = TRUE]
              ELSE LET ev == [symbol |-> i, quantity |-> pos.quantity,
                              unrealized_pnl |-> f.unrealized_pnl,
                              max_loss |-> f.max_loss, loss_pct |-> f.loss_pct]
                       loc1 == [loc EXCEPT !.evaluated = Append(@, ev)]
                   IN IF f.unrealized_pnl < 0
                      THEN LET severity == assess_severity(f.unrealized_pnl, f.max_loss,
                                                           f.loss_pct)
                           IN IF severity \in {"CRITICAL", "WARNING"}
                              THEN CheckLoop(pos_list, i + 1,
                                     [loc1 EXCEPT
                                        !.warnings = Append(@,
                                           [symbol |-> i, quantity |-> pos.quantity,
                                            unrealized_pnl |-> f.unrealized_pnl,
                                            loss_pct |-> f.loss_pct,
                                            severity |-> severity,
                                            current_price |-> pos.close_price,
                                            avg_price |-> pos.average_open_price]),
                                        !.recommendations = Append(@,
                                           generate_recommendation(i, pos.quantity,
                                              f.unrealized_pnl, f.loss_pct, severity))])
                              ELSE CheckLoop(pos_list, i + 1, loc1)
                      ELSE CheckLoop(pos_list, i + 1,
                             [loc1 EXCEPT !.healthy_positions = Append(@,
                                 [symbol |-> i, unrealized_pnl |-> f.unrealized_pnl,
                                  profit_pct |-> f.loss_pct])])

\* LossMonitor.check_positions on the list the client returned: the returned
\* dict (keys names its keys), or the exception that ended the call;
\* evaluated and healthy_positions are the locals at that point.
check_positions(pos_list) ==
    IF Len(pos_list) = 0
    THEN [status |-> "returned", keys |-> {"warnings", "recommendations"},
          warnings |-> <<>>, recommendations |-> <<>>, healthy_count |-> 0,
          healthy_positions |-> <<>>, evaluated |-> <<>>]
    ELSE LET loc == CheckLoop(pos_list, 1, NoLocals) IN
         IF loc.raised
         THEN [status |-> "raised", keys |-> {},
               warnings |-> loc.warnings, recommendations |-> loc.recommendations,
               healthy_count |-> 0,
               healthy_positions |-> loc.healthy_positions, evaluated |-> loc.evaluated]
         ELSE [status |-> "returned",
               keys |-> {"warnings", "recommendations", "healthy_count"},
               warnings |-> loc.warnings, recommendations |-> loc.recommendations,
               healthy_count |-> Len(loc.healthy_positions),
               healthy_positions |-> loc.healthy_positions, evaluated |-> loc.evaluated]

\* A call of check_positions; positions is what client.get_positions returns.
CheckPositions ==
    /\ check.status = "none"
    /\ check' = check_positions(positions)
    /\ UNCHANGED <<sizer, sizing, spread, positions, sev, scanVars, detectorVars>>

\* Inputs of _assess_severity: a loss and a loss at least as bad.
SevPnls == {-500, -250, -150, -50, 0, 100}
SevMaxLosses == {-400, 0, 200, 400}
SevLossPcts == {-125, -101, -100, -75, -51, -50, -26, -25, -10, 0}

SevInputs ==
    {[op |-> "call", pnl |-> p, max_loss |-> m, loss_pct |-> Rat(l, 1),
      worse_pnl |-> p2, worse_loss_pct |-> Rat(l2, 1)] :
        p \in SevPnls, m \in SevMaxLosses, l \in SevLossPcts,
        p2 \in SevPnls, l2 \in SevLossPcts}

\* Two calls of _assess_severity with the same max_loss.
AssessSeverity ==
    /\ sev.op = "call"
    /\ sev' = [op |-> "assessed", pnl |-> sev.pnl, max_loss |-> sev.max_loss,
               loss_pct |-> sev.loss_pct, worse_pnl |-> sev.worse_pnl,
               worse_loss_pct |-> sev.worse_loss_pct,
               label |-> assess_severity(sev.pnl, sev.max_loss, sev.loss_pct),
               worse_label |-> assess_severity(sev.worse_pnl, sev.max_loss,
                                               sev.worse_loss_pct)]
    /\ UNCHANGED <<sizer, sizing, spread, positions, check, scanVars, detectorVars>>

(***************************************************************************)
(* Auto trade detector (auto_trade_detector.py) on one account             *)
(*                                                                         *)
(* A string is the sequence of its pieces, so that f-string formatting is  *)
(* concatenation and str.split() is a cut at the blank piece.  Quantities  *)
(* are hundredths of a unit, prices are cents.  A snapshot date is the     *)
(* reading of the clock at the take_snapshot call; successive calls read   *)
(* successive values.                                                      *)
(***************************************************************************)
MaxHeld == 2

Equity == <<"Equity">>
EquityOption == <<"Equity", " ", "Option">>

AAPL == <<"AAPL">>
MSFT == <<"MSFT">>
AAPL_P150 == <<"AAPL", " ", "250117P00150000">>

\* The instruments the broker may report, in the order it reports them.
Instruments ==
    << [symbol |-> AAPL, instrument_type |-> Equity],
       [symbol |-> MSFT, instrument_type |-> Equity],
       [symbol |-> AAPL_P150, instrument_type |-> EquityOption],
       [symbol |-> AAPL, instrument_type |-> EquityOption] >>

\* <<quantity, average-open-price>> of a held position
Fills == {<<500, 100>>, <<501, 100>>, <<1000, 185>>}

BrokerPosition(k, f) ==
    [symbol |-> Instruments[k].symbol,
     instrument_type |-> Instruments[k].instrument_type,
     quantity |-> f[1], average_open_price |-> f[2]]

RECURSIVE HoldingsFrom(_, _)
\* The position lists of at most n positions on the instruments k, k+1, ...
HoldingsFrom(k, n) ==
    IF k > Len(Instruments) \/ n = 0 THEN {<<>>}
    ELSE HoldingsFrom(k + 1, n)
         \cup {<<BrokerPosition(k, f)>> \o rest :
                   f \in Fills, rest \in HoldingsFrom(k + 1, n - 1)}

\* What client.get_positions may return: at most MaxHeld positions.
Holdings == HoldingsFrom(1, MaxHeld)

\* Mutant of create_position_hash: the quantity is part of the key.
create_position_hash_WithQuantity(position) ==
    position.symbol \o <<"_">> \o position.instrument_type
        \o <<"_", ToString(position.quantity)>>

\* hashlib.md5(f"{symbol}_{inst_type}") -- md5 is taken to be injective, so
\* the digest is represented by the string it is computed from.
create_position_hash(position) ==
    position.symbol \o <<"_">> \o position.instrument_type

\* The rows one take_snapshot call inserts: one per position, all dated
\* snapshot_date.  average-open-price, close-price, value and raw_data are
\* stored too but never read back by the detector; they are left out.
SnapshotRows(position_list, snapshot_date) ==
    [i \in 1..Len(position_list) |->
        [snapshot_date |-> snapshot_date,
         position_hash |-> create_position_hash(position_list[i]),
         symbol |-> position_list[i].symbol,
         quantity |-> position_list[i].quantity,
         instrument_type |-> position_list[i].instrument_type]]

\* take_snapshot: reads the clock and inserts the rows of the positions held.
take_snapshot(store, position_list) ==
    [now |-> store.now + 1,
     rows |-> store.rows \o SnapshotRows(position_list, store.now + 1)]

\* SELECT DISTINCT snapshot_date ... ORDER BY snapshot_date DESC LIMIT 2
SnapshotDates(rows) ==
    LET dates == {rows[i].snapshot_date : i \in 1..Len(rows)}
        newest == CHOOSE d \in dates : \A e \in dates : e <= d
        older == dates \ {newest}
        second == CHOOSE d \in older : \A e \in older : e <= d
    IN IF dates = {} THEN <<>>
       ELSE IF older = {} THEN <<newest>>
       ELSE <<newest, second>>

\* SELECT ... WHERE snapshot_date = ?: the rows of one snapshot, in table order.
RowsOf(rows, snapshot_date) ==
    SelectSeq(rows, LAMBDA r : r.snapshot_date = snapshot_date)

\* The keys of a dict built by inserting keys[1], keys[2], ... in turn, in
\* the order Python iterates over them: each key where it first occurs.
DictKeys(keys) ==
    LET RECURSIVE From(_)
        From(i) == IF i > Len(keys) THEN <<>>
                   ELSE IF \E j \in 1..(i - 1) : keys[j] = keys[i] THEN From(i + 1)
                   ELSE <<keys[i]>> \o From(i + 1)
    IN From(1)

\* The value such a dict holds under key: the item inserted last under it.
DictGet(keys, items, key) ==
    LET hits == {i \in 1..Len(keys) : keys[i] = key}
    IN items[CHOOSE i \in hits : \A j \in hits : j <= i]

InDict(keys, key) == \E i \in 1..Len(keys) : keys[i] = key

\* Mutant of QuantityChanged: any difference of quantity is a change.
QuantityChanged_NoTolerance(current_qty, last_qty) == current_qty # last_qty

\* abs(current_qty - last_qty) > 0.01, quantities in hundredths
QuantityChanged(current_qty, last_qty) == Abs(current_qty - last_qty) > 1

\* Lines 155-187 of detect_changes: the diff of the live positions against
\* the rows of a snapshot.  The changes are collected by iterating over a
\* set of keys; they are listed here in the order of the current dict.
DiffPositions(current_positions, last_positions) ==
    LET Diff(cur_keys, last_keys) ==
            LET Cur(key) == DictGet(cur_keys, current_positions, key)
                Last(key) == DictGet(last_keys, last_positions, key)
                Listed(new_keys, closed_keys, changed_keys) ==
                    [new_positions |->
                         [i \in 1..Len(new_keys) |-> Cur(new_keys[i])],
                     closed_positions |->
                         [i \in 1..Len(closed_keys) |-> Last(closed_keys[i])],
                     changed_positions |->
                         [i \in 1..Len(changed_keys) |->
                             [symbol |-> Cur(changed_keys[i]).symbol,
                              last_qty |-> Last(changed_keys[i]).quantity,
                              current_qty |-> Cur(changed_keys[i]).quantity,
                              change |-> Cur(changed_keys[i]).quantity
                                         - Last(changed_keys[i]).quantity]]]
            IN Listed(SelectSeq(DictKeys(cur_keys), LAMBDA k : ~InDict(last_keys, k)),
                      SelectSeq(DictKeys(last_keys), LAMBDA k : ~InDict(cur_keys, k)),
                      SelectSeq(DictKeys(cur_keys), LAMBDA k :
                          /\ InDict(last_keys, k)
                          /\ QuantityChanged(Cur(k).quantity, Last(k).quantity)))
    IN Diff([i \in 1..Len(current_positions) |->
                create_position_hash(current_positions[i])],
            [i \in 1..Len(last_positions) |-> last_positions[i].position_hash])

\* 'option' in inst_type.lower()
MentionsOption(inst_type) ==
    \E i \in 1..Len(inst_type) : inst_type[i] \in {"Option", "option"}

\* symbol.split()[0]: the piece before the first blank
Underlying(symbol) == symbol[1]

\* The greatest of a set of row ids, None if the set is empty
\* (ORDER BY date DESC LIMIT 1 on a table filled in date order).
Latest(ids) ==
    IF ids = {} THEN None ELSE Some(CHOOSE i \in ids : \A j \in ids : j <= i)

\* TradeJournal.log_trade_entry: the trade is inserted and the
\* recommendation marked executed.  strategy, expiration and the strikes are
\* copied from the recommendation and left out.
log_trade_entry(jn, rec_id, actual_contracts, entry_credit) ==
    IF rec_id \notin 1..Len(jn.recommendations) THEN jn
    ELSE [recommendations |->
              [jn.recommendations EXCEPT ![rec_id].status = "executed"],
          trades |-> Append(jn.trades,
              [recommendation_id |-> rec_id,
               symbol |-> jn.recommendations[rec_id].symbol,
               actual_contracts |-> actual_contracts,
               entry_credit |-> entry_credit,
               status |-> "open",
               exit_debit |-> None,
               realized_pnl |-> None])]

\* TradeJournal.log_trade_exit: realized_pnl = (entry_credit - exit_debit)
\* * 100 * actual_contracts.  The insights _analyze_trade derives from the
\* closed trade are written to a table nothing here reads and are left out.
log_trade_exit(jn, trade_id, exit_debit) ==
    IF trade_id \notin 1..Len(jn.trades) THEN jn
    ELSE LET trade == jn.trades[trade_id] IN
         [jn EXCEPT !.trades[trade_id] =
              [trade EXCEPT
                  !.status = "closed",
                  !.exit_debit = Some(exit_debit),
                  !.realized_pnl = Some((trade.entry_credit - exit_debit)
                                        * 100 * trade.actual_contracts)]]

\* Mutant of auto_log_entry: the status of the recommendation is not tested.
auto_log_entry_AnyStatus(jn, position) ==
    IF ~MentionsOption(position.instrument_type) THEN jn
    ELSE LET underlying == Underlying(position.symbol)
             rec == Latest({i \in 1..Len(jn.recommendations) :
                               /\ jn.recommendations[i].symbol = underlying
                               /\ jn.recommendations[i].recent})
         IN IF rec = None THEN jn
            ELSE log_trade_entry(jn, rec[1],
                                 Abs(IntDiv(position.quantity, 100)),
                                 position.average_open_price)

\* _auto_log_entry: a new option position is matched to the most recent
\* recommendation of its underlying made in the last 7 days.
auto_log_entry(jn, position) ==
    IF ~MentionsOption(position.instrument_type) THEN jn
    ELSE LET underlying == Underlying(position.symbol)
             rec == Latest({i \in 1..Len(jn.recommendations) :
                               /\ jn.recommendations[i].symbol = underlying
                               /\ jn.recommendations[i].status = "recommended"
                               /\ jn.recommendations[i].recent})
         IN IF rec = None THEN jn
            ELSE log_trade_entry(jn, rec[1],
                                 Abs(IntDiv(position.quantity, 100)),
                                 position.average_open_price)

\* _auto_log_exit: a closed position is matched to the most recent open
\* trade of its underlying, which is closed at a debit of 0.05.
auto_log_exit(jn, pos_data) ==
    LET underlying == Underlying(pos_data.symbol)
        trade == Latest({i \in 1..Len(jn.trades) :
                            /\ jn.trades[i].symbol = underlying
                            /\ jn.trades[i].status = "open"})
    IN IF trade = None THEN jn
       ELSE log_trade_exit(jn, trade[1], 5)

RECURSIVE AutoLogEntries(_, _, _)
\* The loop of lines 195-204
AutoLogEntries(jn, new_positions, i) ==
    IF i > Len(new_positions) THEN jn
    ELSE AutoLogEntries(auto_log_entry(jn, new_positions[i]), new_positions, i + 1)

RECURSIVE AutoLogExits(_, _, _)
\* The loop of lines 210-218
AutoLogExits(jn, closed_positions, i) ==
    IF i > Len(closed_positions) THEN jn
    ELSE AutoLogExits(auto_log_exit(jn, closed_positions[i]), closed_positions, i + 1)

\* Mutant of Bootstrap: the live positions are logged as new entries.
Bootstrap_LogsEntries(store, jn, current_positions, snapshot_dates) ==
    [snapshots |-> take_snapshot(store, current_positions),
     journal |-> AutoLogEntries(jn, current_positions, 1),
     report |-> [op |-> "bootstrap",
                 snapshot_dates |-> snapshot_dates,
                 current_positions |-> current_positions]]

\* Lines 137-142: fewer than two snapshot dates; a snapshot is taken and the
\* run returns.
Bootstrap(store, jn, current_positions, snapshot_dates) ==
    [snapshots |-> take_snapshot(store, current_positions),
     journal |-> jn,
     report |-> [op |-> "bootstrap",
                 snapshot_dates |-> snapshot_dates,
                 current_positions |-> current_positions]]

\* detect_changes on the live positions: the store, the journal and the
\* run's locals when it returns.
detect_changes(store, jn, current_positions) ==
    LET Compare(snapshot_dates, last_positions, diff) ==
            [snapshots |-> take_snapshot(store, current_positions),
             journal |-> AutoLogExits(AutoLogEntries(jn, diff.new_positions, 1),
                                      diff.closed_positions, 1),
             report |-> [op |-> "compare",
                         snapshot_dates |-> snapshot_dates,
                         last_snapshot_date |-> snapshot_dates[2],
                         current_positions |-> current_positions,
                         last_positions |-> last_positions,
                         new_positions |-> diff.new_positions,
                         closed_positions |-> diff.closed_positions,
                         changed_positions |-> diff.changed_positions]]
        \* lines 144-153: last_snapshot_date = snapshot_dates[1][0]
        Load(snapshot_dates, last_positions) ==
            Compare(snapshot_dates, last_positions,
                    DiffPositions(current_positions, last_positions))
        Run(snapshot_dates) ==
            IF Len(snapshot_dates) < 2
            THEN Bootstrap(store, jn, current_positions, snapshot_dates)
            ELSE Load(snapshot_dates, RowsOf(store.rows, snapshot_dates[2]))
    IN Run(SnapshotDates(store.rows))

MaxRuns == 5

\* One run of detect_changes on the account.
DetectChanges ==
    /\ snapshots.now < MaxRuns
    /\ LET Commit(run) == /\ snapshots' = run.snapshots
                          /\ journal' = run.journal
                          /\ report' = run.report
       IN Commit(detect_changes(snapshots, journal, broker))
    /\ UNCHANGED <<sizer, sizing, spread, positions, check, sev, scanVars, broker>>

\* One run of detect_changes on a store that already holds two snapshots.
DetectChangesOnce ==
    /\ report.op = "none"
    /\ LET Commit(run) == /\ snapshots' = run.snapshots
                          /\ journal' = run.journal
                          /\ report' = run.report
       IN Commit(detect_changes(snapshots, journal, broker))
    /\ UNCHANGED <<sizer, sizing, spread, positions, check, sev, scanVars, broker>>

\* The positions the account trades between runs: an option and a stock.
TradedHoldings ==
    {h \in Holdings :
        \A i \in 1..Len(h) :
            /\ h[i].quantity = 1000 /\ h[i].average_open_price = 185
            /\ h[i].symbol \in {MSFT, AAPL_P150}}

\* The user trades at the broker between two runs.
BrokerChange ==
    /\ snapshots.now < MaxRuns
    /\ broker' \in TradedHoldings \ {broker}
    /\ UNCHANGED <<sizer, sizing, spread, positions, check, sev, scanVars,
                   snapshots, journal, report>>

Recommendation(symbol, recent) ==
    [symbol |-> symbol, status |-> "recommended", recent |-> recent]

\* What earlier log_recommendation and log_trade_entry calls may have left
\* in the journal: nothing; a recommendation of AAPL; an older and a newer
\* one; two of the last 7 days; a recommendation already executed, its
\* trade open.
Journals ==
    { [recommendations |-> <<>>, trades |-> <<>>],
      [recommendations |-> <<Recommendation("AAPL", TRUE)>>, trades |-> <<>>],
      [recommendations |-> <<Recommendation("AAPL", FALSE),
                             Recommendation("AAPL", TRUE)>>, trades |-> <<>>],
      [recommendations |-> <<Recommendation("AAPL", TRUE),
                             Recommendation("AAPL", TRUE)>>, trades |-> <<>>],
      log_trade_entry([recommendations |-> <<Recommendation("AAPL", TRUE)>>,
                       trades |-> <<>>], 1, 10, 185) }

NoSpread == [op |-> "none"]
NoCheck == [status |-> "none"]
NoSev == [op |-> "none"]
NoAnalysis == [op |-> "none"]
NoScanner == [constructed |-> FALSE]
NoScan == [op |-> "none"]
NoRecommend == [op |-> "none"]
NoReport == [op |-> "none"]

\* No scanner has been built and no chain analysed.
ScanIdle ==
    /\ analysis = NoAnalysis
    /\ scanner = NoScanner
    /\ scan = NoScan
    /\ recommend = NoRecommend

\* The detector's database is empty and the account holds nothing.
DetectorIdle ==
    /\ broker = <<>>
    /\ snapshots = [now |-> 0, rows |-> <<>>]
    /\ journal = [recommendations |-> <<>>, trades |-> <<>>]
    /\ report = NoReport

Init ==
    /\ sizer = NoSizer
    /\ sizing = NoSizing
    /\ spread = NoSpread
    /\ positions = <<>>
    /\ check = NoCheck
    /\ sev = NoSev
    /\ ScanIdle
    /\ DetectorIdle

NextSizer == Construct \/ SizeCreditSpread \/ CalculatePositionDetails

SpecSizer == Init /\ [][NextSizer]_vars

\* The finder is a function of the chain alone: every chain is an input.
InitScanner ==
    /\ sizer = NoSizer
    /\ sizing = NoSizing
    /\ spread \in {[op |-> "call", puts |-> puts] : puts \in Chains}
    /\ positions = <<>>
    /\ check = NoCheck
    /\ sev = NoSev
    /\ ScanIdle
    /\ DetectorIdle

NextScanner == FindPutCreditSpread

SpecScanner == InitScanner /\ [][NextScanner]_vars

\* The broker may hold any list of positions when check_positions is called.
InitMonitor ==
    /\ sizer = NoSizer
    /\ sizing = NoSizing
    /\ spread = NoSpread
    /\ positions \in PositionLists
    /\ check = NoCheck
    /\ sev = NoSev
    /\ ScanIdle
    /\ DetectorIdle

NextMonitor == CheckPositions

SpecMonitor == InitMonitor /\ [][NextMonitor]_vars

InitSeverity ==
    /\ sizer = NoSizer
    /\ sizing = NoSizing
    /\ spread = NoSpread
    /\ positions = <<>>
    /\ ScanIdle
    /\ DetectorIdle
    /\ check = NoCheck
    /\ sev \in {i \in SevInputs : /\ Abs(i.worse_pnl) >= Abs(i.pnl)
                                  /\ i.worse_loss_pct.num <= i.loss_pct.num}

NextSeverity == AssessSeverity

SpecSeverity == InitSeverity /\ [][NextSeverity]_vars

\* The detector starts on an empty snapshot table.
InitDetector ==
    /\ sizer = NoSizer
    /\ sizing = NoSizing
    /\ spread = NoSpread
    /\ positions = <<>>
    /\ check = NoCheck
    /\ sev = NoSev
    /\ ScanIdle
    /\ broker \in TradedHoldings
    /\ snapshots = [now |-> 0, rows |-> <<>>]
    /\ journal \in Journals
    /\ report = NoReport

NextDetector == BrokerChange \/ DetectChanges

SpecDetector == InitDetector /\ [][NextDetector]_vars

\* Two earlier runs have left two snapshots, the later one of a single
\* position, and a journal with one recommendation, pending or executed; the
\* broker holds anything.
InitDiff ==
    /\ sizer = NoSizer
    /\ sizing = NoSizing
    /\ spread = NoSpread
    /\ positions = <<>>
    /\ check = NoCheck
    /\ sev = NoSev
    /\ ScanIdle
    /\ broker \in Holdings
    /\ snapshots \in {take_snapshot(take_snapshot([now |-> 0, rows |-> <<>>], p), l) :
                          p \in Holdings \ {<<>>},
                          l \in {h \in TradedHoldings : Len(h) = 1}}
    /\ journal \in {j \in Journals : Len(j.recommendations) = 1}
    /\ report = NoReport

NextDiff == DetectChangesOnce

SpecDiff == InitDiff /\ [][NextDiff]_vars

\* The scanners _analyze_chain is called on, and any chain data.
InitAnalysis ==
    /\ sizer = NoSizer
    /\ sizing = NoSizing
    /\ spread = NoSpread
    /\ positions = <<>>
    /\ check = NoCheck
    /\ sev = NoSev
    /\ scanner \in {OptionsScanner_init(50, t, m, TRUE, 7, TRUE) :
                        t \in {40, 45}, m \in {50, 60}}
    /\ analysis \in {[op |-> "call", symbol |-> "AAPL", expirations |-> e,
                      candidate_info |-> [symbol |-> "AAPL", iv_rank |-> 80]] :
                         e \in Expirations}
    /\ scan = NoScan
    /\ recommend = NoRecommend
    /\ DetectorIdle

NextAnalysis == AnalyzeChain

SpecAnalysis == InitAnalysis /\ [][NextAnalysis]_vars

\* A new scanner, with or without the earnings filter and the calendar, and
\* the market it scans.
InitScan ==
    /\ sizer = NoSizer
    /\ sizing = NoSizing
    /\ spread = NoSpread
    /\ positions = <<>>
    /\ check = NoCheck
    /\ sev = NoSev
    /\ analysis = NoAnalysis
    /\ scanner \in {OptionsScanner_init(50, 45, 60, a, 7, c) : a, c \in BOOLEAN}
    /\ scan \in {[op |-> "call", market |-> m, metrics_raises |-> FALSE] :
                     m \in Markets(MaxGroups)}
                \cup {[op |-> "call", market |-> m, metrics_raises |-> TRUE] :
                          m \in Markets(1)}
    /\ recommend = NoRecommend
    /\ DetectorIdle

NextScan == ScanForOpportunities

SpecScan == InitScan /\ [][NextScan]_vars

\* The scanners a second scan can meet: new, or holding what an earlier
\* scan of a watchlist left in self.opportunities.
UsedScanners ==
    {[new EXCEPT !.opportunities =
                     scan_for_opportunities(new, m, FALSE).opportunities] :
         new \in {OptionsScanner_init(50, 45, 60, a, 7, c) : a, c \in BOOLEAN},
         m \in Watchlists(MaxSymbols)}

\* A scanner that may have scanned before, and the watchlist it scans now.
InitRescan ==
    /\ sizer = NoSizer
    /\ sizing = NoSizing
    /\ spread = NoSpread
    /\ positions = <<>>
    /\ check = NoCheck
    /\ sev = NoSev
    /\ analysis = NoAnalysis
    /\ scanner \in UsedScanners
    /\ scan \in {[op |-> "call", market |-> m, metrics_raises |-> r] :
                     m \in Watchlists(MaxSymbols), r \in BOOLEAN}
    /\ recommend = NoRecommend
    /\ DetectorIdle

NextRescan == ScanForOpportunities

SpecRescan == InitRescan /\ [][NextRescan]_vars

\* A call of run_full_scan_and_recommend with an account, a risk fraction,
\* an IV rank threshold, and the market its scan meets.
InitRecommend ==
    /\ sizer = NoSizer
    /\ sizing = NoSizing
    /\ spread = NoSpread
    /\ positions = <<>>
    /\ check = NoCheck
    /\ sev = NoSev
    /\ analysis = NoAnalysis
    /\ scanner = NoScanner
    /\ scan = NoScan
    /\ recommend \in [op : {"call"}, account_size : AccountSizes,
                       max_risk : RiskPcts, min_iv_rank : MinIvRanks,
                       earnings_calendar : BOOLEAN, market : RecommendMarkets,
                       metrics_raises : BOOLEAN]
    /\ DetectorIdle

NextRecommend == RunFullScanAndRecommend

SpecRecommend == InitRecommend /\ [][NextRecommend]_vars

(***************************************************************************)
(* Properties of the position sizer, checked under SpecSizer               *)
(***************************************************************************)
Sized == sizing.op = "size"
Detailed == sizing.op = "details"

C4_FloorOfBudget ==
    Sized =>
      LET mlps == max_loss_per_spread(sizing.width, sizing.credit)
          budget == sizer.max_risk_dollars
      IN /\ (mlps > 0 /\ budget >= mlps) =>
               /\ sizing.contracts * mlps <= budget
               /\ budget < (sizing.contracts + 1) * mlps
               /\ sizing.contracts >= 1
         /\ (budget = 230000 /\ mlps = 31500) => sizing.contracts = 7
         /\ (sizer.account_size = 46000 /\ sizer.max_risk_per_trade = 5
             /\ sizing.width = 5 /\ sizing.credit = 175) => sizing.contracts > 0

C4_Witness ==
    /\ Sized
    /\ sizer.max_risk_dollars = 230000
    /\ max_loss_per_spread(sizing.width, sizing.credit) = 31500
    /\ sizing.contracts = 7

\* C5: calculate_position_details returns total_credit = credit x 100 x
\* contracts, total_max_loss = (width - credit) x 100 x contracts, risk_pct =
\* total_max_loss / account_size x 100, and meets_criteria is true exactly
\* when contracts > 0 and risk_pct <= max_risk_per_trade x 100.
C5_PositionDetails ==
    Detailed =>
      LET d == sizing.details
          n == d.contracts
      IN /\ (sizing.arg = None => n = size_credit_spread(sizer, sizing.width, sizing.credit))
         /\ (sizing.arg # None => n = sizing.arg[1])
         /\ d.total_credit = sizing.credit * 100 * n
         /\ d.total_max_loss = (sizing.width * 100 - sizing.credit) * 100 * n
         /\ d.risk_pct.den > 0
         /\ d.risk_pct.num * sizer.account_size = d.total_max_loss * d.risk_pct.den
         /\ d.meets_criteria <=>
              (n > 0 /\ d.risk_pct.num <= sizer.max_risk_per_trade * d.risk_pct.den)

C5_Witness ==
    /\ Detailed
    /\ sizer.account_size = 46000 /\ sizer.max_risk_per_trade = 5
    /\ sizing.width = 5 /\ sizing.credit = 185 /\ sizing.arg = None
    /\ sizing.details.contracts = 7
    /\ sizing.details.total_max_loss = 220500
    /\ sizing.details.meets_criteria

(***************************************************************************)
(* Properties of the put credit spread finder, checked under SpecScanner   *)
(***************************************************************************)
Found == spread.op = "find" /\ spread.result # None
Opportunity == spread.result[1]

\* The legs the finder works on, read off the chain: the put at a strike.
PutAt(strike) ==
    LET i == CHOOSE k \in 1..Len(spread.puts) : StrikePrice(k) = strike
    IN spread.puts[i][1]

\* The credit of the spread on the two legs of the returned opportunity,
\* twice its value in cents: (bid + ask) of the short leg less that of the long.
LegCredit2 ==
    (PutAt(Opportunity.short_strike).bid + PutAt(Opportunity.short_strike).ask)
    - (PutAt(Opportunity.long_strike).bid + PutAt(Opportunity.long_strike).ask)

\* C1: _find_put_credit_spread returns none whenever credit = shortMid -
\* longMid is below width / 3: every opportunity it returns has
\* credit >= width / 3, its credit being the difference of the mids of its legs.
C1_MinCredit ==
    Found => /\ Opportunity.credit = LegCredit2
             /\ 3 * Opportunity.credit >= 200 * Opportunity.width

C1_Witness ==
    /\ spread.op = "find"
    /\ spread.result = None
    /\ Len(spread.puts) = 2
    /\ spread.puts[1] = Some([delta |-> -40, bid |-> 50, ask |-> 150])
    /\ spread.puts[2] = Some([delta |-> -25, bid |-> 150, ask |-> 250])

\* C6: every spread returned by _find_put_credit_spread has
\* max_loss = (width - credit) x 100 >= 0.
C6_MaxLossNonNegative ==
    Found => /\ Opportunity.max_loss = (Opportunity.width * 200 - Opportunity.credit) * 100
             /\ Opportunity.max_loss >= 0

(***************************************************************************)
(* Properties of the severity classifier, checked under SpecSeverity       *)
(***************************************************************************)
Assessed == sev.op = "assessed"

SeverityRank(label) ==
    IF label = "CRITICAL" THEN 3
    ELSE IF label = "WARNING" THEN 2
    ELSE IF label = "WATCH" THEN 1
    ELSE 0

CriticalTest(pnl, max_loss, pct) == Abs(pnl) > Abs(max_loss) \/ pct.num < -100 * pct.den
WarningTest(pnl, max_loss, pct) == pct.num < -50 * pct.den \/ 2 * Abs(pnl) > Abs(max_loss)
WatchTest(pct) == pct.num < -25 * pct.den

\* C7: _assess_severity returns exactly one of the four labels, decided as a
\* strict waterfall: CRITICAL if |pnl| > |max_loss| or loss_pct < -100;
\* otherwise WARNING if loss_pct < -50 or |pnl| > 0.5 x |max_loss|; otherwise
\* WATCH if loss_pct < -25; otherwise OK.  A worse loss (lower loss_pct, larger
\* |pnl|, same max_loss) never gets a less severe label.
C7_SeverityWaterfall ==
    Assessed =>
      LET crit == CriticalTest(sev.pnl, sev.max_loss, sev.loss_pct)
          warn == WarningTest(sev.pnl, sev.max_loss, sev.loss_pct)
          watch == WatchTest(sev.loss_pct)
      IN /\ sev.label \in Severities
         /\ (sev.label = "CRITICAL") <=> crit
         /\ (sev.label = "WARNING") <=> (~crit /\ warn)
         /\ (sev.label = "WATCH") <=> (~crit /\ ~warn /\ watch)
         /\ (sev.label = "OK") <=> (~crit /\ ~warn /\ ~watch)
         /\ SeverityRank(sev.worse_label) >= SeverityRank(sev.label)

C7_Witness ==
    /\ Assessed
    /\ sev.pnl = -50 /\ sev.max_loss = 400 /\ sev.loss_pct = Rat(-26, 1)
    /\ sev.label = "WATCH"
    /\ sev.worse_pnl = -250 /\ sev.worse_loss_pct = Rat(-125, 1)
    /\ sev.worse_label = "CRITICAL"

(***************************************************************************)
(* Properties of check_positions, checked under SpecMonitor                *)
(***************************************************************************)
Checked == check.status # "none"

OptionIndexes == {i \in 1..Len(positions) : IsOption(positions[i])}

Symbols(records) == {records[k].symbol : k \in 1..Len(records)}

\* The unrealized P&L of a position as the specification defines it.
UnrealizedPnl(pos) ==
    IF pos.quantity < 0
    THEN (pos.average_open_price - pos.close_price) * Abs(pos.quantity) * pos.multiplier
    ELSE pos.close_price * pos.quantity * pos.multiplier
         - pos.average_open_price * pos.quantity * pos.multiplier

\* C8: in check_positions only option positions with unrealized pnl < 0 are
\* classified; every option position with pnl >= 0 is recorded as healthy and
\* is in neither warnings nor recommendations.
C8_HealthyWhenNotLosing ==
    Checked =>
      /\ \A i \in Symbols(check.warnings) \cup Symbols(check.recommendations) :
           i \in OptionIndexes /\ UnrealizedPnl(positions[i]) < 0
      /\ \A i \in OptionIndexes :
           UnrealizedPnl(positions[i]) >= 0 =>
             /\ i \in Symbols(check.healthy_positions)
             /\ i \notin Symbols(check.warnings)
             /\ i \notin Symbols(check.recommendations)

\* The figures of a short position (quantity < 0) as the specification
\* states them.
ShortFigures(pos, ev) ==
    LET credit == pos.average_open_price * Abs(pos.quantity) * pos.multiplier IN
    /\ ev.unrealized_pnl =
         (pos.average_open_price - pos.close_price) * Abs(pos.quantity) * pos.multiplier
    /\ ev.max_loss = credit * 2
    /\ credit # 0
    /\ ev.loss_pct.num * credit = ev.unrealized_pnl * 100 * ev.loss_pct.den

\* The figures of a long position apart from loss_pct.
LongFigures(pos, ev) ==
    LET cost_basis == pos.average_open_price * pos.quantity * pos.multiplier
        current_value == pos.close_price * pos.quantity * pos.multiplier
    IN /\ ev.unrealized_pnl = current_value - cost_basis
       /\ 2 * ev.max_loss = cost_basis

CostBasis(pos) == pos.average_open_price * pos.quantity * pos.multiplier

IsRatio(pct, n, d) == pct.num * d = n * 100 * pct.den

\* The original statement of C9: for a long position loss_pct is
\* pnl / cost_basis x 100, and 0 if cost_basis is 0.
C9_FiguresAsStated ==
    Checked =>
      \A k \in 1..Len(check.evaluated) :
        LET ev == check.evaluated[k]
            pos == positions[ev.symbol]
        IN IF pos.quantity < 0 THEN ShortFigures(pos, ev)
           ELSE /\ LongFigures(pos, ev)
                /\ (CostBasis(pos) # 0 =>
                      IsRatio(ev.loss_pct, ev.unrealized_pnl, CostBasis(pos)))
                /\ (CostBasis(pos) = 0 => ev.loss_pct.num = 0)

\* C9 (amended): check_positions computes per side: for quantity < 0,
\* pnl = (avg price - current price) x |quantity| x multiplier, max_loss =
\* avg price x |quantity| x multiplier x 2.0 and loss_pct = pnl / (avg price x
\* |quantity| x multiplier) x 100; for a long position, pnl = current_value -
\* cost_basis, max_loss = cost_basis x 0.5 and loss_pct = pnl / cost_basis x
\* 100 if cost_basis > 0, and 0 if cost_basis <= 0.  A call that returns has
\* computed the figures of every option position.
C9_Figures ==
    Checked =>
      /\ \A k \in 1..Len(check.evaluated) :
           LET ev == check.evaluated[k]
               pos == positions[ev.symbol]
           IN IF pos.quantity < 0 THEN ShortFigures(pos, ev)
              ELSE /\ LongFigures(pos, ev)
                   /\ (CostBasis(pos) > 0 =>
                         IsRatio(ev.loss_pct, ev.unrealized_pnl, CostBasis(pos)))
                   /\ (CostBasis(pos) <= 0 => ev.loss_pct.num = 0)
      /\ (check.status = "returned" => Symbols(check.evaluated) = OptionIndexes)

C9_Witness ==
    /\ check.status = "returned"
    /\ Len(positions) = 2
    /\ positions[1] = [instrument_type |-> "Equity Option", quantity |-> -1,
                       average_open_price |-> 200, close_price |-> 450,
                       multiplier |-> 100]
    /\ positions[2].quantity = 2 /\ CostBasis(positions[2]) < 0
    /\ Len(check.evaluated) = 2
    /\ check.evaluated[1].unrealized_pnl = -25000
    /\ check.evaluated[1].max_loss = 40000
    /\ check.evaluated[1].loss_pct = Rat(-125, 1)
    /\ check.evaluated[2].unrealized_pnl > 0
    /\ check.evaluated[2].loss_pct = Zero

\* C10: degenerate inputs never propagate a division fault: check_positions
\* completes for every list of positions, and every option position of the
\* list is evaluated.
C10_NoDivisionFault ==
    Checked => /\ check.status = "returned"
               /\ Symbols(check.evaluated) = OptionIndexes

\* C29: in the dict check_positions returns, every option position is
\* either in warnings or counted in healthy_count and never both, so that
\* len(warnings) + healthy_count is the number of option positions; and the
\* recommendations match the warnings one for one in symbol and severity.
C29_EveryOptionAccounted ==
    check.status = "returned" =>
        /\ Len(check.warnings) + check.healthy_count = Cardinality(OptionIndexes)
        /\ \A i \in OptionIndexes :
               (i \in Symbols(check.warnings)) # (i \in Symbols(check.healthy_positions))
        /\ Len(check.warnings) = Len(check.recommendations)
        /\ \A k \in 1..Len(check.warnings) :
               /\ check.recommendations[k].symbol = check.warnings[k].symbol
               /\ check.recommendations[k].severity = check.warnings[k].severity

\* The strikes of the chain whose put has -0.35 <= delta <= -0.25, a bid
\* above 0 and an ask above 0.
QualifyingStrikes ==
    {StrikePrice(i) : i \in {k \in 1..Len(spread.puts) :
        /\ spread.puts[k] # None
        /\ spread.puts[k][1].delta >= -35 /\ spread.puts[k][1].delta <= -25
        /\ spread.puts[k][1].bid > 0 /\ spread.puts[k][1].ask > 0}}

\* C16: the short strike of a returned spread is the highest strike among
\* the puts with delta in [-0.35, -0.25], bid > 0 and ask > 0; when no put
\* qualifies nothing is returned.
C16_ShortStrike ==
    spread.op = "find" =>
        /\ (QualifyingStrikes = {} => spread.result = None)
        /\ (Found => /\ Opportunity.short_strike \in QualifyingStrikes
                     /\ \A k \in QualifyingStrikes : k <= Opportunity.short_strike)

\* Puts at 95 and 100 both qualify: the short strike is 100.
C16_Witness ==
    /\ Found
    /\ QualifyingStrikes = {95, 100}
    /\ Opportunity.short_strike = 100

\* C17: a spread is returned only if the chain has an entry at exactly
\* short strike - width whose put carries valid quotes, a bid above 0 and an
\* ask above 0 as required of the short leg, and that entry is the long leg.
C17_LongLegQuoted ==
    Found =>
        \E i \in 1..Len(spread.puts) :
            /\ StrikePrice(i) = Opportunity.short_strike - Opportunity.width
            /\ StrikePrice(i) = Opportunity.long_strike
            /\ spread.puts[i] # None
            /\ spread.puts[i][1].bid > 0
            /\ spread.puts[i][1].ask > 0

\* C18: every returned spread has width 5 when its short strike is below
\* 100 and width 10 otherwise, its long strike is the short strike less the
\* width, and so width = |short_strike - long_strike| > 0.
C18_WidthPolicy ==
    Found =>
        /\ Opportunity.width = (IF Opportunity.short_strike < 100 THEN 5 ELSE 10)
        /\ Opportunity.long_strike = Opportunity.short_strike - Opportunity.width
        /\ Opportunity.width = Abs(Opportunity.short_strike - Opportunity.long_strike)
        /\ Opportunity.width > 0

\* A short strike of exactly 100 gets width 10 and the long strike 90.
C18_Witness ==
    /\ Found
    /\ Opportunity.short_strike = 100
    /\ Opportunity.width = 10
    /\ Opportunity.long_strike = 90

(***************************************************************************)
(* Properties of the chain analysis, checked under SpecAnalysis            *)
(***************************************************************************)
Analyzed == analysis.op = "analyzed"

\* The expirations of the analysed chain whose days to expiration lie in
\* [30, max_dte].
EligibleExpirations ==
    {i \in 1..Len(analysis.expirations) :
        /\ analysis.expirations[i].dte # None
        /\ analysis.expirations[i].dte[1] >= 30
        /\ analysis.expirations[i].dte[1] <= scanner.max_dte}

DteDistance(i) == Abs(analysis.expirations[i].dte[1] - scanner.target_dte)

\* C15: _analyze_chain picks, among the expirations with
\* 30 <= DTE <= max_dte, one with the smallest |DTE - target_dte|, the first
\* such in chain order, and looks for spreads on it alone; when no expiration
\* is eligible it picks none and returns no opportunities.
C15_TargetExpiration ==
    Analyzed =>
        IF EligibleExpirations = {}
        THEN analysis.target_exp = None /\ analysis.opportunities = <<>>
        ELSE /\ analysis.target_exp # None
             /\ LET t == analysis.target_exp[1] IN
                    /\ t \in EligibleExpirations
                    /\ \A j \in EligibleExpirations :
                           /\ DteDistance(j) >= DteDistance(t)
                           /\ (j < t => DteDistance(j) > DteDistance(t))
                    /\ \A k \in 1..Len(analysis.opportunities) :
                           analysis.opportunities[k].dte = analysis.expirations[t].dte[1]

\* Target 45: expirations at 61, 40 and 50 days; 61 is out of range, 40 and
\* 50 are equally close and the earlier in the chain is taken.
C15_Witness ==
    /\ Analyzed
    /\ scanner.target_dte = 45 /\ scanner.max_dte = 60
    /\ Len(analysis.expirations) = 3
    /\ analysis.expirations[1].dte = Some(61)
    /\ analysis.expirations[2].dte = Some(40)
    /\ analysis.expirations[3].dte = Some(50)
    /\ analysis.target_exp = Some(2)
    /\ Len(analysis.opportunities) = 1
    /\ analysis.opportunities[1].dte = 40

(***************************************************************************)
(* Properties of the scan, checked under SpecScan                          *)
(***************************************************************************)
Scanned == scan.op = "scan"

\* The symbols the metrics listed with an IV rank of at least min_iv_rank.
HighIvSymbols ==
    {i \in 1..Len(scan.market) : scan.market[i].iv_rank >= scanner.min_iv_rank}

CandidateSymbols == {c.symbol : c \in Range(scan.high_iv_candidates)}
ExcludedSymbols == {e.symbol : e \in Range(scan.earnings_filtered)}

\* C19: the candidates of a scan are symbols whose IV rank is at least
\* min_iv_rank, and every such symbol is a candidate unless the earnings
\* filter removed it; they are ordered by descending IV rank; the option
\* chains fetched are those of the first 10 candidates, in that order, and
\* every opportunity returned comes from one of them.
C19_TopCandidates ==
    Scanned =>
        /\ CandidateSymbols \subseteq HighIvSymbols
        /\ (scan.path = "scanned" => CandidateSymbols \cup ExcludedSymbols = HighIvSymbols)
        /\ \A i, j \in 1..Len(scan.high_iv_candidates) :
               i < j => scan.high_iv_candidates[i].iv_rank
                            >= scan.high_iv_candidates[j].iv_rank
        /\ Len(scan.fetched) = (IF Len(scan.high_iv_candidates) < 10
                                THEN Len(scan.high_iv_candidates) ELSE 10)
        /\ \A i \in 1..Len(scan.fetched) :
               scan.fetched[i] = scan.high_iv_candidates[i].symbol
        /\ \A k \in 1..Len(scan.result) : scan.result[k].symbol \in Range(scan.fetched)

\* Ten symbols of IV rank 50 followed by one of IV rank 80: the last comes
\* first, and the tenth symbol's chain is not fetched.
C19_Witness ==
    /\ Scanned
    /\ Len(scan.high_iv_candidates) = 11
    /\ Len(scan.fetched) = 10
    /\ scan.fetched[1] = 11
    /\ scan.market[11].iv_rank = 80
    /\ scan.market[10].iv_rank = 50
    /\ 10 \notin Range(scan.fetched)
    /\ scan.market[10].chain # None

\* The high-IV symbols with an earnings date in [today, today + window].
EarningsSoon ==
    {i \in HighIvSymbols :
        /\ scan.market[i].earnings # None
        /\ scan.market[i].earnings[1] >= 0
        /\ scan.market[i].earnings[1] <= scanner.earnings_window_days}

\* C20: in a scan that got its metrics, when avoid_earnings is set and the
\* earnings calendar is available the symbols excluded are exactly the
\* high-IV symbols with an earnings date in [today, today + window] and the
\* others stay candidates; when the filter is off or the calendar is
\* unavailable nothing is excluded.
C20_EarningsFilter ==
    (Scanned /\ scan.path # "metrics failed") =>
        IF scanner.avoid_earnings /\ scanner.earnings_calendar
        THEN /\ ExcludedSymbols = EarningsSoon
             /\ (scan.path = "scanned" => CandidateSymbols = HighIvSymbols \ EarningsSoon)
             /\ (scan.path = "no candidates" => HighIvSymbols \ EarningsSoon = {})
        ELSE /\ ExcludedSymbols = {}
             /\ (scan.path = "scanned" => CandidateSymbols = HighIvSymbols)
             /\ (scan.path = "no candidates" => HighIvSymbols = {})

\* Earnings in 7 days exclude the first symbol; earnings in 8 days leave
\* the second a candidate.
C20_Witness ==
    /\ Scanned
    /\ scanner.avoid_earnings /\ scanner.earnings_calendar
    /\ Len(scan.market) = 2
    /\ scan.market[1].iv_rank = 50 /\ scan.market[1].earnings = Some(7)
    /\ scan.market[2].iv_rank = 80 /\ scan.market[2].earnings = Some(8)
    /\ ExcludedSymbols = {1}
    /\ CandidateSymbols = {2}
    /\ scan.fetched = <<2>>

\* What the analysis of one fetched symbol's chain yields; nothing when the
\* request for the chain fails.
FoundFor(symbol) ==
    IF scan.market[symbol].chain = None THEN <<>>
    ELSE analyze_chain(scanner, symbol, scan.market[symbol].chain[1],
                       [symbol |-> symbol,
                        iv_rank |-> scan.market[symbol].iv_rank]).opportunities

FailedSymbols == {s \in Range(scan.fetched) : scan.market[s].chain = None}

\* C21: in a scan that reaches the chain analysis, a symbol whose option
\* chain request fails contributes nothing, every one of the first 10
\* candidates is still tried, and the list returned holds exactly the
\* opportunities found for the other symbols.
C21_PartialFailure ==
    (Scanned /\ scan.path = "scanned") =>
        /\ \A s \in FailedSymbols :
               \A k \in 1..Len(scan.result) : scan.result[k].symbol # s
        /\ \A s \in Range(scan.fetched) : Range(FoundFor(s)) \subseteq Range(scan.result)
        /\ Len(scan.result)
               = Cardinality({s \in Range(scan.fetched) : FoundFor(s) # <<>>})

\* The chain request of the first candidate fails and the second candidate
\* is still analysed: its spread is the list returned.
C21_Witness ==
    /\ Scanned
    /\ scan.fetched = <<1, 2>>
    /\ scan.market[1].chain = None
    /\ Len(scan.result) = 1
    /\ scan.result[1].symbol = 2

\* C23: the list a scan returns is in descending order of pop, whichever
\* symbols its opportunities come from.
C23_SortedByPop ==
    Scanned =>
        \A i, j \in 1..Len(scan.result) :
            i < j => scan.result[i].spread.pop >= scan.result[j].spread.pop

\* The symbol of IV rank 80 is analysed first and yields the spread of
\* lower pop; the spread of the symbol of IV rank 50 is returned ahead of
\* it.
C23_Witness ==
    /\ Scanned
    /\ scan.path = "scanned"
    /\ Len(scan.result) = 2
    /\ scan.fetched = <<scan.result[2].symbol, scan.result[1].symbol>>
    /\ scan.result[1].iv_rank = 50
    /\ scan.result[2].iv_rank = 80
    /\ scan.result[1].spread.pop > scan.result[2].spread.pop

(***************************************************************************)
(* Properties of a scan by a scanner that may have scanned before, checked *)
(* under SpecRescan                                                        *)
(***************************************************************************)
\* C22: no failing fetch ends a scan early: every scan gets as far as
\* ranking its candidates, and when it has candidates it requests the
\* option chain of each of the first 10.
C22_NeverAborted ==
    Scanned => scan.path \in {"no candidates", "scanned"}

\* The earnings lookup of the first symbol raises; the second symbol, whose
\* lookups all work and whose chain holds a spread, is never analysed.
C22_EarningsAbort ==
    /\ Scanned
    /\ scan.path = "earnings raised"
    /\ ~scan.metrics_raises
    /\ Len(scan.market) = 2
    /\ scan.market[1].earnings_raises
    /\ ~scan.market[2].earnings_raises
    /\ scan.market[2].iv_rank >= scanner.min_iv_rank
    /\ scan.market[2].earnings = None
    /\ scan.market[2].chain # None
    /\ scan.fetched = <<>>

\* C28: after a call of scan_for_opportunities that returns, by whichever
\* path, self.opportunities is the list the call returned.
C28_OpportunitiesAreLastResult ==
    (Scanned /\ scan.path # "earnings raised") =>
        scanner.opportunities = scan.result

(***************************************************************************)
(* Properties of run_full_scan_and_recommend, checked under SpecRecommend  *)
(***************************************************************************)
Recommended == recommend.op = "done"

\* The opportunities whose one-spread max loss exceeds the risk budget
\* (max_loss in half-cents, the budget in cents): the sizer gives them one
\* contract by the floor override.
OverBudget ==
    {o \in Range(Take(recommend.opportunities, 5)) :
        o.spread.max_loss > 2 * sizer.account_size * sizer.max_risk_per_trade}

\* C26: every recommendation returned is one of the first 5 opportunities,
\* sized to at least one contract with a total max loss of at most
\* account_size x max_risk; a spread whose single-contract max loss exceeds
\* that budget is not recommended.
C26_RecommendedWithinBudget ==
    Recommended =>
        /\ \A k \in 1..Len(recommend.recommendations) :
               LET rec == recommend.recommendations[k] IN
               /\ rec.opportunity \in Range(Take(recommend.opportunities, 5))
               /\ rec.sizing.contracts > 0
               /\ rec.sizing.total_max_loss
                      <= sizer.account_size * sizer.max_risk_per_trade
               /\ rec.sizing.total_max_loss * 2
                      = rec.opportunity.spread.max_loss * rec.sizing.contracts
        /\ \A o \in OverBudget :
               \A k \in 1..Len(recommend.recommendations) :
                   recommend.recommendations[k].opportunity # o

\* Account 46000 at 1% (budget 460): the spread of max loss 325 is
\* recommended with one contract, the spread of max loss 550, which the
\* floor override sizes to one contract, is not.
C26_Witness ==
    /\ Recommended
    /\ sizer.account_size = 46000 /\ sizer.max_risk_per_trade = 1
    /\ Len(recommend.opportunities) = 2
    /\ Len(recommend.recommendations) = 1
    /\ recommend.recommendations[1].opportunity.spread.width = 5
    /\ recommend.recommendations[1].sizing.contracts = 1
    /\ \E o \in OverBudget : o.spread.width = 10

(***************************************************************************)
(* Properties of the auto trade detector, checked under SpecDiff and       *)
(* SpecDetector                                                            *)
(***************************************************************************)
Compared == report.op = "compare"

\* The identity of a position or of a snapshot row: its two fields.
KeyOf(p) == <<p.symbol, p.instrument_type>>

CurrentKeys == {KeyOf(p) : p \in Range(report.current_positions)}
PreviousKeys == {KeyOf(r) : r \in Range(report.last_positions)}

\* The quantity changes between the two sets the run diffed, as the run
\* reports them.
ExpectedChanges ==
    {[symbol |-> c.symbol, last_qty |-> l.quantity, current_qty |-> c.quantity,
      change |-> c.quantity - l.quantity] :
         <<c, l>> \in {pair \in Range(report.current_positions)
                                \X Range(report.last_positions) :
                          /\ KeyOf(pair[1]) = KeyOf(pair[2])
                          /\ Abs(pair[1].quantity - pair[2].quantity) > 1}}

\* The keys in both sets whose quantities differ by more than 0.01.
ChangedKeys ==
    {KeyOf(c) : c \in {p \in Range(report.current_positions) :
                          \E r \in Range(report.last_positions) :
                              /\ KeyOf(r) = KeyOf(p)
                              /\ Abs(p.quantity - r.quantity) > 1}}

\* C11: a comparing run of detect_changes reports as new exactly the
\* positions whose key is in the current set and not in the previous one, as
\* closed exactly the rows whose key is in the previous set and not in the
\* current one, and as changed exactly the keys in both whose quantities
\* differ by more than 0.01; when the two sets hold the same keys with the
\* same quantities all three are empty.
C11_DiffByKey ==
    Compared =>
        /\ {KeyOf(p) : p \in Range(report.new_positions)} = CurrentKeys \ PreviousKeys
        /\ Range(report.new_positions) \subseteq Range(report.current_positions)
        /\ Len(report.new_positions) = Cardinality(CurrentKeys \ PreviousKeys)
        /\ {KeyOf(r) : r \in Range(report.closed_positions)} = PreviousKeys \ CurrentKeys
        /\ Range(report.closed_positions) \subseteq Range(report.last_positions)
        /\ Len(report.closed_positions) = Cardinality(PreviousKeys \ CurrentKeys)
        /\ Range(report.changed_positions) = ExpectedChanges
        /\ Len(report.changed_positions) = Cardinality(ChangedKeys)
        /\ ({<<KeyOf(p), p.quantity>> : p \in Range(report.current_positions)}
              = {<<KeyOf(r), r.quantity>> : r \in Range(report.last_positions)}
            => /\ report.new_positions = <<>>
               /\ report.closed_positions = <<>>
               /\ report.changed_positions = <<>>)

\* Previous {AAPL equity 10}, current {AAPL equity 10, MSFT equity 5}:
\* entries = [MSFT], no exits, no changes.
C11_Witness ==
    /\ Compared
    /\ Len(report.last_positions) = 1
    /\ KeyOf(report.last_positions[1]) = <<AAPL, Equity>>
    /\ report.last_positions[1].quantity = 1000
    /\ report.current_positions = <<BrokerPosition(1, <<1000, 185>>),
                                    BrokerPosition(2, <<500, 100>>)>>
    /\ report.new_positions = <<BrokerPosition(2, <<500, 100>>)>>
    /\ report.closed_positions = <<>>
    /\ report.changed_positions = <<>>

\* The keys the run computed: of the live positions, and those stored with
\* the rows it loaded.
HashedPositions ==
    {[hash |-> create_position_hash(p), key |-> KeyOf(p)] :
         p \in Range(report.current_positions)}
    \cup {[hash |-> r.position_hash, key |-> KeyOf(r)] :
              r \in Range(report.last_positions)}

NewKeys == {KeyOf(p) : p \in Range(report.new_positions)}
ClosedKeys == {KeyOf(r) : r \in Range(report.closed_positions)}

\* C12: two positions have the same identity key iff they agree on symbol
\* and instrument type, whatever their quantities and prices; a key present
\* in both the current and the previous set is never reported as a new
\* entry or an exit, it is reported as a change when its quantity moved, and
\* no key is both a new entry and an exit.
C12_KeyIsSymbolAndType ==
    Compared =>
        /\ \A a, b \in HashedPositions : (a.hash = b.hash) <=> (a.key = b.key)
        /\ \A k \in CurrentKeys \cap PreviousKeys : k \notin NewKeys \cup ClosedKeys
        /\ NewKeys \cap ClosedKeys = {}
        /\ ChangedKeys \cap (NewKeys \cup ClosedKeys) = {}
        /\ \A k \in ChangedKeys :
               \E c \in Range(report.changed_positions) : c.symbol = k[1]

\* AAPL stock held at 10 before and at 5 now, bought at another price: one
\* change, no entry, no exit.
C12_Witness ==
    /\ Compared
    /\ report.current_positions = <<BrokerPosition(1, <<500, 100>>)>>
    /\ Len(report.last_positions) = 1
    /\ report.last_positions[1].position_hash = create_position_hash(BrokerPosition(1, <<1000, 185>>))
    /\ report.last_positions[1].quantity = 1000
    /\ report.new_positions = <<>>
    /\ report.closed_positions = <<>>
    /\ Len(report.changed_positions) = 1
    /\ report.changed_positions[1].change = -500

\* A step is a run of detect_changes when it reads the clock.
DetectRun == snapshots'.now # snapshots.now

\* C13: a run of detect_changes that finds fewer than two snapshots of the
\* account takes a snapshot of the live positions, reports no entries, exits
\* or changes, and leaves the trade journal as it was.
C13_Bootstrap ==
    [][(DetectRun /\ Len(SnapshotDates(snapshots.rows)) < 2) =>
           /\ report'.op = "bootstrap"
           /\ DOMAIN report' \cap {"new_positions", "closed_positions",
                                   "changed_positions"} = {}
           /\ snapshots'.now = snapshots.now + 1
           /\ snapshots'.rows = snapshots.rows \o SnapshotRows(broker, snapshots.now + 1)
           /\ journal' = journal]_vars

\* The second run still bootstraps: the option bought on a pending
\* recommendation is snapshotted, and the recommendation stays pending.
C13_Witness ==
    /\ report.op = "bootstrap"
    /\ report.snapshot_dates = <<1>>
    /\ snapshots.now = 2
    /\ \E i \in 1..Len(snapshots.rows) :
           snapshots.rows[i].snapshot_date = 2 /\ snapshots.rows[i].symbol = AAPL_P150
    /\ journal = [recommendations |-> <<Recommendation("AAPL", TRUE)>>, trades |-> <<>>]

\* C14: every run of detect_changes that compares loads the most recently
\* recorded snapshot of the account, the first of the dates it read in
\* descending order, and diffs the live positions against its rows.
C14_ComparesWithLastSnapshot ==
    Compared =>
        /\ report.last_snapshot_date = report.snapshot_dates[1]
        /\ report.last_positions = RowsOf(snapshots.rows, report.snapshot_dates[1])

\* The keys of the positions the account held at a run, and those the run
\* reported as new and as closed.
HeldAt(run) == {KeyOf(p) : p \in Range(run.current_positions)}
NewAt(run) == {KeyOf(p) : p \in Range(run.new_positions)}
ClosedAt(run) == {KeyOf(r) : r \in Range(run.closed_positions)}

\* C24: over the runs of detect_changes on the account, a comparing run
\* that follows a comparing run reports as new exactly the positions held
\* now and not held at the run before, and as closed exactly the positions
\* held at the run before and not held now; so a position that stays is
\* new in one run only, and a position that stays away is closed in one run
\* only.
C24_ReportedOnce ==
    [][(DetectRun /\ Compared /\ report'.op = "compare") =>
           /\ NewAt(report') = HeldAt(report') \ HeldAt(report)
           /\ ClosedAt(report') = HeldAt(report) \ HeldAt(report')]_vars

\* The snapshots the store holds: the distinct dates of its rows.
RecordedSnapshots(store) ==
    {store.rows[i].snapshot_date : i \in 1..Len(store.rows)}

\* C25: every run of detect_changes, which calls take_snapshot once, adds
\* one snapshot to those recorded for the account, whatever the account
\* holds; and from an empty store the first two runs bootstrap and every
\* later run compares (snapshots.now counts the runs made so far).
C25_EveryRunRecordsASnapshot ==
    [][DetectRun =>
           /\ Cardinality(RecordedSnapshots(snapshots'))
                  = Cardinality(RecordedSnapshots(snapshots)) + 1
           /\ (report'.op = "bootstrap") <=> (snapshots.now < 2)]_vars

\* C27: a comparing run in which no option position appeared adds no trade
\* to the journal and marks no recommendation executed, and a run in which
\* no option position disappeared closes no trade.
C27_OptionsOnly ==
    [][(DetectRun /\ report'.op = "compare") =>
           /\ (\A p \in Range(report'.new_positions) :
                   ~MentionsOption(p.instrument_type))
              => /\ journal'.recommendations = journal.recommendations
                 /\ Len(journal'.trades) = Len(journal.trades)
           /\ (\A r \in Range(report'.closed_positions) :
                   ~MentionsOption(r.instrument_type))
              => \A i \in 1..Len(journal.trades) :
                     journal'.trades[i].status = journal.trades[i].status]_vars

\* The trades linked to a recommendation.
TradesOf(jn, rec_id) ==
    {t \in 1..Len(jn.trades) : jn.trades[t].recommendation_id = rec_id}

\* Every recommendation has at most one trade, and has one only when it is
\* executed.
LinkedOnce ==
    \A r \in 1..Len(journal.recommendations) :
        /\ Cardinality(TradesOf(journal, r)) <= 1
        /\ (TradesOf(journal, r) # {} => journal.recommendations[r].status = "executed")

\* A step leaves every executed recommendation and every closed trade as it
\* is, drops no row, opens a trade only for a recommendation that was still
\* pending, and closes only trades that were open.
OneWay ==
    /\ Len(journal'.recommendations) = Len(journal.recommendations)
    /\ Len(journal'.trades) >= Len(journal.trades)
    /\ \A r \in 1..Len(journal.recommendations) :
           /\ journal.recommendations[r].status = "executed"
                  => /\ journal'.recommendations[r] = journal.recommendations[r]
                     /\ TradesOf(journal', r) = TradesOf(journal, r)
           /\ journal'.recommendations[r].status \in {"recommended", "executed"}
    /\ \A t \in 1..Len(journal.trades) :
           /\ journal.trades[t].status = "closed" => journal'.trades[t] = journal.trades[t]
           /\ journal'.trades[t].status \in {"open", "closed"}
           /\ journal'.trades[t].recommendation_id = journal.trades[t].recommendation_id

\* C30: over the runs of detect_changes, a recommendation goes from
\* recommended to executed at most once and is linked to at most one trade,
\* and a trade goes from open to closed at most once: once closed it is never
\* reopened, closed again or changed.
C30_OneWayLifecycles == [](LinkedOnce) /\ [][OneWay]_vars

\* The put appeared and was reported as new in two runs, then went away and
\* was reported as closed: the newer recommendation of AAPL was executed by
\* the first report only and has one trade, which is now closed; the older
\* recommendation is still pending.
C30_Witness ==
    /\ Compared
    /\ report.closed_positions # <<>>
    /\ Len(journal.recommendations) = 2
    /\ journal.recommendations[1].status = "recommended"
    /\ journal.recommendations[2].status = "executed"
    /\ Len(journal.trades) = 1
    /\ journal.trades[1].recommendation_id = 2
    /\ journal.trades[1].status = "closed"
    /\ journal.trades[1].exit_debit = Some(5)

====
